---- MODULE Spec2Model ----
(***************************************************************************)
(* State-machine model of the lightconsole runtime core (console_core):    *)
(* cue-list state evaluation (tracking / cue-only), the playback engine    *)
(* with timed delay+fade transitions, and the operator commands of the     *)
(* REPL (console_cli) that drive it.                                       *)
(*                                                                         *)
(* Rust values are represented as follows.                                 *)
(*   Option<T>     : <<>> for None, <<x>> for Some(x)                      *)
(*   u32 (ms)      : a pair <<hi, lo>> of 16-bit limbs, value hi*2^16+lo,  *)
(*                   so that the full 32-bit width is kept                 *)
(*   i32           : an integer in -2^31 .. 2^31-1                         *)
(*   BTreeMap<K,V> : a function with a finite domain                       *)
(*   cue numbers and fixture ids (u32, only compared) : naturals           *)
(***************************************************************************)
EXTENDS Integers, Sequences, FiniteSets, TLC

VARIABLES
    cue_lists,        \* rt.show.cue_lists : name -> (cue number -> Cue)
    playback,         \* [a |-> rt.playback_a, b |-> rt.playback_b]
    panicked,         \* the process died in a panic
    active_pb,        \* the REPL's active playback, "a" or "b"
    steps,            \* number of operator commands issued so far
    edited,           \* per playback: show or mode changed since its last activation
    last,             \* the last call: operation, arguments, result, state before
    patch,            \* rt.show.patch : fixture types and patched fixtures
    programmer        \* rt.programmer : selection and values

vars == <<cue_lists, playback, panicked, active_pb, steps, edited, last, patch, programmer>>

(***************************************************************************)
(* Bounds of the model.                                                    *)
(***************************************************************************)
MaxCue == 3
MaxSteps == 4

CueNums == 1..MaxCue
\* cue numbers an operator may type: 0, the cues, and one number past them
GotoNums == 0..(MaxCue + 1)
FIDs == {1, 2}
PBs == {"a", "b"}

(***************************************************************************)
(* Option<T>                                                               *)
(***************************************************************************)
None == <<>>
Some(x) == <<x>>
IsSome(o) == o # <<>>
IsNone(o) == o = <<>>
Unwrap(o) == o[1]
UnwrapOr(o, d) == IF o = <<>> THEN d ELSE o[1]

(***************************************************************************)
(* u32 as two 16-bit limbs, and the i32 arithmetic lerp_u8 uses.           *)
(***************************************************************************)
Limb == 65536
I32Max == 2147483647
I32Min == -2147483647 - 1

U32(n) == <<n \div Limb, n % Limb>>
U32Max == <<Limb - 1, Limb - 1>>
U32Zero == <<0, 0>>

ULt(x, y) == x[1] < y[1] \/ (x[1] = y[1] /\ x[2] < y[2])
ULe(x, y) == ~ULt(y, x)
UGe(x, y) == ~ULt(x, y)
UMin(x, y) == IF ULt(y, x) THEN y ELSE x

\* u32::wrapping_add: what saturating_add would be with the carry dropped
WrappingAdd(x, y) ==
    LET lo == x[2] + y[2]
        hi == x[1] + y[1] + (lo \div Limb)
    IN  <<hi % Limb, lo % Limb>>

\* u32::saturating_add
SaturatingAdd(x, y) ==
    LET lo == x[2] + y[2]
        hi == x[1] + y[1] + (lo \div Limb)
    IN  IF hi >= Limb THEN U32Max ELSE <<hi, lo % Limb>>

\* x - y on u32, used only where x >= y
USub(x, y) ==
    LET lo == x[2] - y[2]
        borrow == IF lo < 0 THEN 1 ELSE 0
    IN  <<x[1] - y[1] - borrow, lo + borrow * Limb>>

\* `x as i32`: the same 32 bits read as two's complement
AsI32(x) ==
    IF x[1] >= Limb \div 2 THEN (x[1] - Limb) * Limb + x[2]
    ELSE x[1] * Limb + x[2]

\* the exact product d * (t as i32) is outside i32 (d is a small integer)
MulOverflows(d, t) ==
    LET ths == IF t[1] >= Limb \div 2 THEN t[1] - Limb ELSE t[1]
        p0 == d * t[2]
        p1 == d * ths + (p0 \div Limb)
    IN  p1 < -(Limb \div 2) \/ p1 > (Limb \div 2) - 1

\* d * (t as i32) with i32 wrap-around
WrappingMul(d, t) ==
    LET p0 == d * t[2]
        p1 == d * t[1] + (p0 \div Limb)
    IN  AsI32(<<p1 % Limb, p0 % Limb>>)

\* i32 division n / d, truncating toward zero; d # 0 and not (n = MIN, d = -1)
TruncDiv(n, d) ==
    IF d > 0
    THEN IF n >= 0 THEN n \div d
         ELSE (n \div d) + (IF n % d # 0 THEN 1 ELSE 0)
    ELSE IF d = I32Min
         THEN (IF n = I32Min THEN 1 ELSE 0)
         ELSE LET q == IF n >= 0 THEN n \div (-d)
                       ELSE (n \div (-d)) + (IF n % (-d) # 0 THEN 1 ELSE 0)
              IN  -q

DivOverflows(n, d) == n = I32Min /\ d = -1

\* a + q on i32 with a in 0..255: overflow test and wrapped sum
AddOverflows(a, q) == q > I32Max - a
WrappingAddI32(a, q) ==
    IF q > I32Max - a THEN (q - I32Max - 1) + (a - I32Max - 1) ELSE a + q

Clamp(v, lo, hi) == IF v < lo THEN lo ELSE IF v > hi THEN hi ELSE v

(***************************************************************************)
(* FixtureValues (cues.rs)                                                 *)
(***************************************************************************)
Channels == {"intensity", "r", "g", "b"}

\* FixtureValues::default(): every field None
FixtureValuesDefault == [intensity |-> None, r |-> None, g |-> None, b |-> None]

\* a bug of apply_delta: the whole entry is replaced by the delta
apply_delta_replace(self, delta) == delta

\* FixtureValues::apply_delta: only fields that are Some in delta overwrite
apply_delta(self, delta) ==
    [intensity |-> IF IsSome(delta.intensity) THEN delta.intensity ELSE self.intensity,
     r |-> IF IsSome(delta.r) THEN delta.r ELSE self.r,
     g |-> IF IsSome(delta.g) THEN delta.g ELSE self.g,
     b |-> IF IsSome(delta.b) THEN delta.b ELSE self.b]

\* the empty BTreeMap
EmptyMap == <<>>

\* BTreeMap::insert(k, v)
MapInsert(m, k, v) == [x \in (DOMAIN m) \cup {k} |-> IF x = k THEN v ELSE m[x]]

\* the keys of a map, ascending (BTreeMap iteration order)
RECURSIVE Ascending(_)
Ascending(S) ==
    IF S = {} THEN <<>>
    ELSE LET m == CHOOSE x \in S : \A y \in S : x <= y
         IN  <<m>> \o Ascending(S \ {m})

(***************************************************************************)
(* Cue-list state evaluation (playback.rs).  A Cue is a record             *)
(* [block, fade_ms, delay_ms, changes]; its number is its key in the list. *)
(* A Playback is a record [cuelist, current, mode, transition].            *)
(***************************************************************************)

\* show.cue_lists.get(&self.cuelist) succeeds
HasList(self, show) == self.cuelist \in DOMAIN show

\* a bug of the block reset: a block cue does not clear what tracked through
BlockResetNone(tracked, cue) == tracked

\* `if cue.block { for fid in cue.changes.keys() { tracked.insert(fid, default) } }`
BlockReset(tracked, cue) ==
    IF cue.block
    THEN [fid \in (DOMAIN tracked) \cup (DOMAIN cue.changes) |->
            IF fid \in DOMAIN cue.changes THEN FixtureValuesDefault ELSE tracked[fid]]
    ELSE tracked

\* `for (fid, delta) in &cue.changes { tracked.entry(fid).or_default().apply_delta(delta) }`
ApplyChanges(tracked, cue) ==
    [fid \in (DOMAIN tracked) \cup (DOMAIN cue.changes) |->
        IF fid \in DOMAIN cue.changes
        THEN apply_delta(IF fid \in DOMAIN tracked THEN tracked[fid]
                         ELSE FixtureValuesDefault,
                         cue.changes[fid])
        ELSE tracked[fid]]

\* the loop of tracked_state_at over the cue numbers `nums` (ascending),
\* left at the first number above cue_num
RECURSIVE TrackFold(_, _, _, _)
TrackFold(cues, nums, cue_num, tracked) ==
    IF nums = <<>> THEN tracked
    ELSE IF Head(nums) > cue_num THEN tracked
    ELSE TrackFold(cues, Tail(nums), cue_num,
                   ApplyChanges(BlockReset(tracked, cues[Head(nums)]), cues[Head(nums)]))

\* Playback::tracked_state_at (the cue list exists)
tracked_state_at(self, show, cue_num) ==
    LET list == show[self.cuelist]
    IN  TrackFold(list, Ascending(DOMAIN list), cue_num, EmptyMap)

\* cue_only_state_at that reads the tracked state
cue_only_state_at_tracked(self, show, cue_num) ==
    tracked_state_at(self, show, cue_num)

\* Playback::cue_only_state_at (the cue list exists)
cue_only_state_at(self, show, cue_num) ==
    LET list == show[self.cuelist]
    IN  IF cue_num \in DOMAIN list THEN list[cue_num].changes ELSE EmptyMap

\* Playback::state_map_at
state_map_at(self, show, cue_num) ==
    IF self.mode = "Tracking" THEN tracked_state_at(self, show, cue_num)
    ELSE cue_only_state_at(self, show, cue_num)

\* resolve_map that leaves unset fields unset
resolve_map_unresolved(m) == m

\* Playback::resolve_map: every None field becomes Some(0)
resolve_map(m) ==
    [fid \in DOMAIN m |->
        [intensity |-> Some(UnwrapOr(m[fid].intensity, 0)),
         r |-> Some(UnwrapOr(m[fid].r, 0)),
         g |-> Some(UnwrapOr(m[fid].g, 0)),
         b |-> Some(UnwrapOr(m[fid].b, 0))]]

(***************************************************************************)
(* Interpolation (playback.rs).                                            *)
(***************************************************************************)

\* lerp_u8 panics: the division overflows (any build), or the multiplication
\* or the addition overflows in a build with overflow checks
lerp_panics(a, b, t, dur, checks) ==
    /\ dur # U32Zero
    /\ \/ DivOverflows(WrappingMul(b - a, t), AsI32(dur))
       \/ /\ checks
          /\ \/ MulOverflows(b - a, t)
             \/ AddOverflows(a, TruncDiv(WrappingMul(b - a, t), AsI32(dur)))

\* lerp_u8 where it returns: i32 arithmetic that wraps where unchecked
\* lerp_u8 with its end points exchanged
lerp_u8_swapped(a, b, t, dur) ==
    IF dur = U32Zero THEN a
    ELSE LET delta == a - b
             v == WrappingAddI32(b, TruncDiv(WrappingMul(delta, t), AsI32(dur)))
         IN  Clamp(v, 0, 255)

lerp_u8(a, b, t, dur) ==
    IF dur = U32Zero THEN b
    ELSE LET delta == b - a
             v == WrappingAddI32(a, TruncDiv(WrappingMul(delta, t), AsI32(dur)))
         IN  Clamp(v, 0, 255)

\* the all-zero FixtureValues interpolate_maps uses for a missing side
ZeroValues == [intensity |-> Some(0), r |-> Some(0), g |-> Some(0), b |-> Some(0)]

MapGetOr(m, k, d) == IF k \in DOMAIN m THEN m[k] ELSE d

\* interpolate_maps, over keys(from) \cup keys(to)
interpolate_maps(from, to, t, dur) ==
    [fid \in (DOMAIN from) \cup (DOMAIN to) |->
        LET f == MapGetOr(from, fid, ZeroValues)
            tt == MapGetOr(to, fid, ZeroValues)
        IN  [intensity |-> Some(lerp_u8(UnwrapOr(f.intensity, 0),
                                        UnwrapOr(tt.intensity, 0), t, dur)),
             r |-> Some(lerp_u8(UnwrapOr(f.r, 0), UnwrapOr(tt.r, 0), t, dur)),
             g |-> Some(lerp_u8(UnwrapOr(f.g, 0), UnwrapOr(tt.g, 0), t, dur)),
             b |-> Some(lerp_u8(UnwrapOr(f.b, 0), UnwrapOr(tt.b, 0), t, dur))]]

\* some lerp_u8 call of interpolate_maps panics
interpolate_panics(from, to, t, dur, checks) ==
    \E fid \in (DOMAIN from) \cup (DOMAIN to) :
        LET f == MapGetOr(from, fid, ZeroValues)
            tt == MapGetOr(to, fid, ZeroValues)
        IN  \E c \in Channels :
                lerp_panics(UnwrapOr(f[c], 0), UnwrapOr(tt[c], 0), t, dur, checks)

(***************************************************************************)
(* Playback (playback.rs).  A Transition is a record                       *)
(* [from, to, elapsed_ms, fade_ms, delay_ms].                              *)
(***************************************************************************)

\* Playback::new
PlaybackNew(cuelist) ==
    [cuelist |-> cuelist, current |-> None, mode |-> "Tracking", transition |-> None]

\* output_state_map returns Err: only the steady branch reads the cue list
output_is_err(self, show) ==
    IsNone(self.transition) /\ IsSome(self.current) /\ ~HasList(self, show)

\* output_state_map panics: only the fade branch computes
output_panics(self, show, checks) ==
    /\ IsSome(self.transition)
    /\ LET tr == Unwrap(self.transition)
       IN  /\ UGe(tr.elapsed_ms, tr.delay_ms)
           /\ tr.fade_ms # U32Zero
           /\ interpolate_panics(tr.from, tr.to,
                                 UMin(USub(tr.elapsed_ms, tr.delay_ms), tr.fade_ms),
                                 tr.fade_ms, checks)

\* output_state_map without the hold during the delay: the fade is counted
\* from the activation
output_state_map_no_hold(self, show) ==
    IF IsSome(self.transition)
    THEN LET tr == Unwrap(self.transition)
         IN  IF tr.fade_ms = U32Zero THEN tr.to
             ELSE interpolate_maps(tr.from, tr.to,
                                   UMin(tr.elapsed_ms, tr.fade_ms), tr.fade_ms)
    ELSE IF IsNone(self.current) THEN EmptyMap
    ELSE resolve_map(state_map_at(self, show, Unwrap(self.current)))

\* output_state_map that fades to the look of the current cue as the mode
\* gives it now, not to the target cached at the activation
output_state_map_live_target(self, show) ==
    IF IsSome(self.transition)
    THEN LET tr == Unwrap(self.transition)
             to == resolve_map(state_map_at(self, show, Unwrap(self.current)))
         IN  IF ULt(tr.elapsed_ms, tr.delay_ms) THEN tr.from
             ELSE IF tr.fade_ms = U32Zero THEN to
             ELSE interpolate_maps(tr.from, to,
                                   UMin(USub(tr.elapsed_ms, tr.delay_ms), tr.fade_ms),
                                   tr.fade_ms)
    ELSE IF IsNone(self.current) THEN EmptyMap
    ELSE resolve_map(state_map_at(self, show, Unwrap(self.current)))

\* Playback::output_state_map where it returns Ok
output_state_map(self, show) ==
    IF IsSome(self.transition)
    THEN LET tr == Unwrap(self.transition)
         IN  IF ULt(tr.elapsed_ms, tr.delay_ms) THEN tr.from
             ELSE IF tr.fade_ms = U32Zero THEN tr.to
             ELSE interpolate_maps(tr.from, tr.to,
                                   UMin(USub(tr.elapsed_ms, tr.delay_ms), tr.fade_ms),
                                   tr.fade_ms)
    ELSE IF IsNone(self.current) THEN EmptyMap
    ELSE resolve_map(state_map_at(self, show, Unwrap(self.current)))

\* TargetTiming that, for a target that is no cue, takes the timing of the
\* last cue below it
TargetTimingNearest(self, show, target) ==
    LET list == show[self.cuelist]
        below == {k \in DOMAIN list : k <= target}
    IN  IF below # {}
        THEN LET k == CHOOSE x \in below : \A y \in below : y <= x
             IN  <<list[k].fade_ms, list[k].delay_ms>>
        ELSE <<U32Zero, U32Zero>>

\* the (fade_ms, delay_ms) activate takes from the target cue, (0, 0) if absent
TargetTiming(self, show, target) ==
    LET list == show[self.cuelist]
    IN  IF target \in DOMAIN list
        THEN <<list[target].fade_ms, list[target].delay_ms>>
        ELSE <<U32Zero, U32Zero>>

\* activate that snaps whenever the fade is zero, whatever the delay
activate_snap_on_zero_fade(self, show, target) ==
    LET from == output_state_map(self, show)
        timing == TargetTiming(self, show, target)
        to == resolve_map(state_map_at(self, show, target))
    IN  IF timing[1] = U32Zero
        THEN [self EXCEPT !.current = Some(target), !.transition = None]
        ELSE [self EXCEPT !.current = Some(target),
                          !.transition = Some([from |-> from, to |-> to,
                                               elapsed_ms |-> U32Zero,
                                               fade_ms |-> timing[1],
                                               delay_ms |-> timing[2]])]

\* activate that starts from the steady look of the old current cue rather
\* than from the visible output
activate_from_steady(self, show, target) ==
    LET from == output_state_map([self EXCEPT !.transition = None], show)
        timing == TargetTiming(self, show, target)
        to == resolve_map(state_map_at(self, show, target))
    IN  IF timing[1] = U32Zero /\ timing[2] = U32Zero
        THEN [self EXCEPT !.current = Some(target), !.transition = None]
        ELSE [self EXCEPT !.current = Some(target),
                          !.transition = Some([from |-> from, to |-> to,
                                               elapsed_ms |-> U32Zero,
                                               fade_ms |-> timing[1],
                                               delay_ms |-> timing[2]])]

\* activate that fades in from a blackout instead of the current output
activate_from_blackout(self, show, target) ==
    LET timing == TargetTiming(self, show, target)
        to == resolve_map(state_map_at(self, show, target))
    IN  IF timing[1] = U32Zero /\ timing[2] = U32Zero
        THEN [self EXCEPT !.current = Some(target), !.transition = None]
        ELSE [self EXCEPT !.current = Some(target),
                          !.transition = Some([from |-> EmptyMap, to |-> to,
                                               elapsed_ms |-> U32Zero,
                                               fade_ms |-> timing[1],
                                               delay_ms |-> timing[2]])]

\* activate that stores the transition and leaves the cursor where it was
activate_keep_cursor(self, show, target) ==
    LET from == output_state_map(self, show)
        timing == TargetTiming(self, show, target)
        to == resolve_map(state_map_at(self, show, target))
    IN  IF timing[1] = U32Zero /\ timing[2] = U32Zero
        THEN [self EXCEPT !.current = Some(target), !.transition = None]
        ELSE [self EXCEPT !.transition = Some([from |-> from, to |-> to,
                                               elapsed_ms |-> U32Zero,
                                               fade_ms |-> timing[1],
                                               delay_ms |-> timing[2]])]

\* Playback::activate where it returns Ok (the cue list exists, no panic)
activate(self, show, target) ==
    LET from == output_state_map(self, show)
        timing == TargetTiming(self, show, target)
        to == resolve_map(state_map_at(self, show, target))
    IN  IF timing[1] = U32Zero /\ timing[2] = U32Zero
        THEN [self EXCEPT !.current = Some(target), !.transition = None]
        ELSE [self EXCEPT !.current = Some(target),
                          !.transition = Some([from |-> from, to |-> to,
                                               elapsed_ms |-> U32Zero,
                                               fade_ms |-> timing[1],
                                               delay_ms |-> timing[2]])]

\* Playback::goto
goto(self, show, cue) == activate(self, show, cue)

\* GoNext that wraps from the last cue to the first
GoNextWrap(self, nums) ==
    IF IsNone(self.current) THEN nums[1]
    ELSE LET cur == Unwrap(self.current)
             later == {i \in 1..Len(nums) : nums[i] > cur}
         IN  IF later = {} THEN nums[1]
             ELSE nums[CHOOSE i \in later : \A j \in later : i <= j]

\* the cue go() activates on a non-empty list
GoNext(self, nums) ==
    IF IsNone(self.current) THEN nums[1]
    ELSE LET cur == Unwrap(self.current)
             later == {i \in 1..Len(nums) : nums[i] > cur}
         IN  IF later = {} THEN cur
             ELSE nums[CHOOSE i \in later : \A j \in later : i <= j]

\* go that leaves the playback as it is when the list has no cues
go_keep_on_empty(self, show) ==
    LET nums == Ascending(DOMAIN show[self.cuelist])
    IN  IF nums = <<>> THEN self
        ELSE activate(self, show, GoNext(self, nums))

\* Playback::go where it returns Ok: the playback after the call
go(self, show) ==
    LET nums == Ascending(DOMAIN show[self.cuelist])
    IN  IF nums = <<>>
        THEN [self EXCEPT !.current = None, !.transition = None]
        ELSE activate(self, show, GoNext(self, nums))

\* go() has to compute an output (it reaches activate)
go_activates(self, show) == DOMAIN show[self.cuelist] # {}

\* tick that clears the transition only once elapsed_ms has passed the end
tick_clear_after(self, dt_ms) ==
    IF IsNone(self.transition) THEN self
    ELSE LET tr == Unwrap(self.transition)
             elapsed == SaturatingAdd(tr.elapsed_ms, dt_ms)
             total == SaturatingAdd(tr.delay_ms, tr.fade_ms)
         IN  IF ULt(total, elapsed)
             THEN [self EXCEPT !.transition = None]
             ELSE [self EXCEPT !.transition = Some([tr EXCEPT !.elapsed_ms = elapsed])]

\* tick that counts elapsed_ms from the last tick, not from the activation
tick_restart(self, dt_ms) ==
    IF IsNone(self.transition) THEN self
    ELSE LET tr == Unwrap(self.transition)
             total == SaturatingAdd(tr.delay_ms, tr.fade_ms)
         IN  IF UGe(dt_ms, total)
             THEN [self EXCEPT !.transition = None]
             ELSE [self EXCEPT !.transition = Some([tr EXCEPT !.elapsed_ms = dt_ms])]

\* tick with wrapping_add in place of saturating_add
tick_wrapping(self, dt_ms) ==
    IF IsNone(self.transition) THEN self
    ELSE LET tr == Unwrap(self.transition)
             elapsed == WrappingAdd(tr.elapsed_ms, dt_ms)
             total == SaturatingAdd(tr.delay_ms, tr.fade_ms)
         IN  IF UGe(elapsed, total)
             THEN [self EXCEPT !.transition = None]
             ELSE [self EXCEPT !.transition = Some([tr EXCEPT !.elapsed_ms = elapsed])]

\* Playback::tick
tick(self, dt_ms) ==
    IF IsSome(self.transition)
    THEN LET tr == Unwrap(self.transition)
             elapsed == SaturatingAdd(tr.elapsed_ms, dt_ms)
             done_at == SaturatingAdd(tr.delay_ms, tr.fade_ms)
         IN  IF UGe(elapsed, done_at)
             THEN [self EXCEPT !.transition = None]
             ELSE [self EXCEPT !.transition = Some([tr EXCEPT !.elapsed_ms = elapsed])]
    ELSE self

\* on_cue_deleted that clears the cursor and leaves the transition running
on_cue_deleted_keep_transition(self, num) ==
    IF self.current = Some(num) THEN [self EXCEPT !.current = None] ELSE self

\* Playback::on_cue_deleted
on_cue_deleted(self, num) ==
    IF self.current = Some(num)
    THEN [self EXCEPT !.current = None, !.transition = None]
    ELSE self

(***************************************************************************)
(* Runtime: the merge of the two playbacks (console_core/src/runtime.rs).  *)
(***************************************************************************)
\* ltp where playback A wins
ltp_a_wins(a, b) == IF IsSome(a) THEN a ELSE b

\* ltp: playback B wins if it has the field set
ltp(a, b) == IF IsSome(b) THEN b ELSE a

\* htp that lets a set side of playback B win
htp_b_wins(a, b) == IF IsSome(b) THEN b ELSE a

\* htp: highest takes precedence, an unset side counting as 0
htp(a, b) ==
    IF IsNone(a) /\ IsNone(b) THEN None
    ELSE LET x == UnwrapOr(a, 0)
             y == UnwrapOr(b, 0)
         IN  Some(IF x >= y THEN x ELSE y)

\* merge_fixture that merges the colours like the intensity, highest first
merge_fixture_all_htp(a, b) ==
    LET av == UnwrapOr(a, FixtureValuesDefault)
        bv == UnwrapOr(b, FixtureValuesDefault)
    IN  [intensity |-> htp(av.intensity, bv.intensity),
         r |-> htp(av.r, bv.r),
         g |-> htp(av.g, bv.g),
         b |-> htp(av.b, bv.b)]

\* merge_fixture: a and b are Option<&FixtureValues>
merge_fixture(a, b) ==
    LET av == UnwrapOr(a, FixtureValuesDefault)
        bv == UnwrapOr(b, FixtureValuesDefault)
    IN  [intensity |-> htp(av.intensity, bv.intensity),
         r |-> ltp(av.r, bv.r),
         g |-> ltp(av.g, bv.g),
         b |-> ltp(av.b, bv.b)]

\* BTreeMap::get
MapGet(m, k) == IF k \in DOMAIN m THEN Some(m[k]) ELSE None

\* merge_maps
merge_maps(a, b) ==
    [fid \in (DOMAIN a) \cup (DOMAIN b) |-> merge_fixture(MapGet(a, fid), MapGet(b, fid))]

(***************************************************************************)
(* LiveState and the projection of fixture values onto DMX addresses       *)
(* (console_core/src/engine.rs, render_fixture_values in playback.rs).     *)
(* A patch is [fixture_types : type id -> sequence of channel kinds,       *)
(* fixtures : fixture id -> [fixture_type, universe, address]].  A render  *)
(* result is [ok |-> TRUE, live |-> LiveState] or [ok |-> FALSE, ..].      *)
(* address + i cannot overflow u16: index i is reached only after the      *)
(* address of index i - 1 passed the range check, so it is at most 513.    *)
(***************************************************************************)
\* LiveState::new: universe -> (address -> value)
LiveNew == <<>>

\* LiveState::set
LiveSet(live, universe, address, value) ==
    MapInsert(live, universe,
              MapInsert(IF universe \in DOMAIN live THEN live[universe] ELSE <<>>,
                        address, value))

\* LiveState::overlay: values in top overwrite values in self
overlay(self, top) ==
    [u \in (DOMAIN self) \cup (DOMAIN top) |->
        IF u \notin DOMAIN top THEN self[u]
        ELSE IF u \notin DOMAIN self THEN top[u]
        ELSE [a \in (DOMAIN self[u]) \cup (DOMAIN top[u]) |->
                 IF a \in DOMAIN top[u] THEN top[u][a] ELSE self[u][a]]]

RenderOk(live) == [ok |-> TRUE, live |-> live]
RenderErr == [ok |-> FALSE, live |-> LiveNew]

\* the DMX addresses: 1..=512
DmxMin == 1
DmxMax == 512
InDmxRange(addr) == addr >= DmxMin /\ addr <= DmxMax

\* KindValue where every kind that is not a colour takes the intensity
KindValueAllDim(kind, vals) ==
    CASE kind = "ColorR" -> vals.r
      [] kind = "ColorG" -> vals.g
      [] kind = "ColorB" -> vals.b
      [] OTHER -> vals.intensity

\* the field a channel kind takes; Pan, Tilt and Other take none
KindValue(kind, vals) ==
    CASE kind = "Intensity" -> vals.intensity
      [] kind = "ColorR" -> vals.r
      [] kind = "ColorG" -> vals.g
      [] kind = "ColorB" -> vals.b
      [] OTHER -> None

\* the channel loop of render_fixture_values from 0-based index i on
RECURSIVE WriteChannels(_, _, _, _, _)
WriteChannels(f, channels, i, vals, live) ==
    IF i >= Len(channels) THEN RenderOk(live)
    ELSE LET addr == f.address + i
         IN  IF ~InDmxRange(addr) THEN RenderErr
             ELSE LET value_opt == KindValue(channels[i + 1], vals)
                  IN  WriteChannels(f, channels, i + 1, vals,
                                    IF IsSome(value_opt)
                                    THEN LiveSet(live, f.universe, addr, Unwrap(value_opt))
                                    ELSE live)

\* render_fixture_values
render_fixture_values(patch_, fixture_id, vals, live) ==
    IF fixture_id \notin DOMAIN patch_.fixtures THEN RenderErr
    ELSE LET f == patch_.fixtures[fixture_id]
         IN  IF f.fixture_type \notin DOMAIN patch_.fixture_types THEN RenderErr
             ELSE WriteChannels(f, patch_.fixture_types[f.fixture_type], 0, vals, live)

(***************************************************************************)
(* The programmer (console_core/src/engine.rs).                            *)
(***************************************************************************)
\* Programmer::new
ProgrammerNew ==
    [selected |-> {}, intensity |-> None, r |-> None, g |-> None, b |-> None]

\* Programmer::clear_all
clear_all(self) == ProgrammerNew

\* Programmer::select_one
select_one(self, id) == [self EXCEPT !.selected = @ \cup {id}]

\* select_range that takes a..b as given, without ordering the ends
select_range_unordered(self, a, b) == [self EXCEPT !.selected = @ \cup (a..b)]

\* Programmer::select_range
select_range(self, a, b) ==
    LET start == IF a <= b THEN a ELSE b
        end == IF a <= b THEN b ELSE a
    IN  [self EXCEPT !.selected = @ \cup (start..end)]

\* set_intensity_percent without the cap at 100
set_intensity_percent_uncapped(self, pct) ==
    [self EXCEPT !.intensity = Some(((pct * 255) \div 100) % 256)]

\* Programmer::set_intensity_percent: 0..100 scaled to 0..255
set_intensity_percent(self, pct) ==
    LET capped == IF pct > 100 THEN 100 ELSE pct
    IN  [self EXCEPT !.intensity = Some(((capped * 255) \div 100) % 256)]

\* Programmer::set_rgb
set_rgb(self, r, g, b) == [self EXCEPT !.r = Some(r), !.g = Some(g), !.b = Some(b)]

\* apply_palette that copies the palette's fields of its kind, unset ones too
apply_palette_replace(self, pal) ==
    IF pal.kind = "Intensity"
    THEN [self EXCEPT !.intensity = pal.values.intensity]
    ELSE [self EXCEPT !.r = pal.values.r, !.g = pal.values.g, !.b = pal.values.b]

\* Programmer::apply_palette
apply_palette(self, pal) ==
    IF pal.kind = "Intensity"
    THEN IF IsSome(pal.values.intensity)
         THEN [self EXCEPT !.intensity = pal.values.intensity]
         ELSE self
    ELSE LET p1 == IF IsSome(pal.values.r) THEN [self EXCEPT !.r = pal.values.r] ELSE self
             p2 == IF IsSome(pal.values.g) THEN [p1 EXCEPT !.g = pal.values.g] ELSE p1
         IN  IF IsSome(pal.values.b) THEN [p2 EXCEPT !.b = pal.values.b] ELSE p2

\* the programmer's values as the fields a channel kind takes
ProgValues(self) ==
    [intensity |-> self.intensity, r |-> self.r, g |-> self.g, b |-> self.b]

\* the body of Programmer::render's loop for one selected fixture
ProgFixture(self, patch_, fixture_id, live) ==
    IF fixture_id \notin DOMAIN patch_.fixtures THEN RenderErr
    ELSE LET f == patch_.fixtures[fixture_id]
         IN  IF f.fixture_type \notin DOMAIN patch_.fixture_types THEN RenderErr
             ELSE WriteChannels(f, patch_.fixture_types[f.fixture_type], 0,
                                ProgValues(self), live)

\* Programmer::render's loop over the selected fixtures, in ascending order
RECURSIVE ProgLoop(_, _, _, _)
ProgLoop(self, patch_, ids, live) ==
    IF ids = <<>> THEN RenderOk(live)
    ELSE LET res == ProgFixture(self, patch_, Head(ids), live)
         IN  IF ~res.ok THEN RenderErr
             ELSE ProgLoop(self, patch_, Tail(ids), res.live)

\* Programmer::render
programmer_render(self, patch_) ==
    ProgLoop(self, patch_, Ascending(self.selected), LiveNew)

(***************************************************************************)
(* Runtime::render (console_core/src/runtime.rs): merge A and B, project   *)
(* the merged fixtures, overlay the programmer.                            *)
(***************************************************************************)
\* the loop of Runtime::render over the merged fixtures, in ascending order
RECURSIVE MergedLoop(_, _, _, _)
MergedLoop(patch_, merged, ids, live) ==
    IF ids = <<>> THEN RenderOk(live)
    ELSE LET res == render_fixture_values(patch_, Head(ids), merged[Head(ids)], live)
         IN  IF ~res.ok THEN RenderErr
             ELSE MergedLoop(patch_, merged, Tail(ids), res.live)

\* the playback part of Runtime::render: the merged fixtures projected
render_playbacks(pbs, show, patch_) ==
    LET a == output_state_map(pbs["a"], show)
        b == output_state_map(pbs["b"], show)
        merged == merge_maps(a, b)
    IN  MergedLoop(patch_, merged, Ascending(DOMAIN merged), LiveNew)

\* Runtime::render with the programmer laid under the playbacks
runtime_render_under(pbs, show, patch_, prog) ==
    LET live == render_playbacks(pbs, show, patch_)
        top == programmer_render(prog, patch_)
    IN  IF ~live.ok \/ ~top.ok THEN RenderErr
        ELSE RenderOk(overlay(top.live, live.live))

\* Runtime::render where it does not panic
runtime_render(pbs, show, patch_, prog) ==
    LET live == render_playbacks(pbs, show, patch_)
        top == programmer_render(prog, patch_)
    IN  IF ~live.ok \/ ~top.ok THEN RenderErr
        ELSE RenderOk(overlay(live.live, top.live))

(***************************************************************************)
(* The programmer command line (console_core/src/progcmd.rs).  A line is   *)
(* the sequence of its whitespace-separated tokens (lex), a token the      *)
(* sequence of its characters.                                             *)
(***************************************************************************)
DigitChars == <<"0", "1", "2", "3", "4", "5", "6", "7", "8", "9">>
UpperChars == <<"A", "E", "F", "H", "L", "O", "P", "R", "T", "U">>
LowerChars == <<"a", "e", "f", "h", "l", "o", "p", "r", "t", "u">>

IsDigit(c) == \E i \in 1..Len(DigitChars) : DigitChars[i] = c
DigitValue(c) == (CHOOSE i \in 1..Len(DigitChars) : DigitChars[i] = c) - 1

\* char::to_lowercase on the letters of the model's lines
LowerChar(c) ==
    IF \E i \in 1..Len(UpperChars) : UpperChars[i] = c
    THEN LowerChars[CHOOSE i \in 1..Len(UpperChars) : UpperChars[i] = c]
    ELSE c

\* str::to_lowercase
to_lowercase(tok) == [i \in 1..Len(tok) |-> LowerChar(tok[i])]

\* the digits of an unsigned decimal accumulated left to right; None on a
\* character that is no digit or when the value exceeds max
RECURSIVE ParseDigits(_, _, _)
ParseDigits(chars, acc, max) ==
    IF chars = <<>> THEN Some(acc)
    ELSE IF ~IsDigit(Head(chars)) THEN None
    ELSE LET d == DigitValue(Head(chars))
         IN  IF acc > (max - d) \div 10 THEN None
             ELSE ParseDigits(Tail(chars), acc * 10 + d, max)

\* str::parse::<uN>: digits with an optional leading "+", at most max
ParseUnsigned(tok, max) ==
    LET digits == IF tok # <<>> /\ Head(tok) = "+" THEN Tail(tok) ELSE tok
    IN  IF digits = <<>> THEN None ELSE ParseDigits(digits, 0, max)

\* the largest fixture number a line of the model may name (a u32 in the
\* program; the lines of the model stay far below it)
MaxNum == 100000
U8Max == 255

Word(w, n) == [w |-> w, n |-> n]

\* parse_words for one token: Some(word), or None for an unknown token
ParseWord(t) ==
    LET low == to_lowercase(t)
    IN  IF low = <<"t", "h", "r", "u">> THEN Some(Word("Thru", 0))
        ELSE IF low = <<"@">> THEN Some(Word("At", 0))
        ELSE IF low = <<"f", "u", "l", "l">> THEN Some(Word("Full", 0))
        ELSE IF low = <<"o", "u", "t">> THEN Some(Word("Out", 0))
        ELSE IF IsSome(ParseUnsigned(low, MaxNum))
             THEN Some(Word("Num", Unwrap(ParseUnsigned(low, MaxNum))))
        ELSE IF IsSome(ParseUnsigned(low, U8Max))
             THEN Some(Word("Percent",
                            IF Unwrap(ParseUnsigned(low, U8Max)) > 100 THEN 100
                            ELSE Unwrap(ParseUnsigned(low, U8Max))))
        ELSE None

\* parse_words that keeps the words up to the first unknown token
parse_words_prefix(tokens) ==
    IF tokens = <<>> THEN None
    ELSE IF IsNone(ParseUnsigned(tokens[1], MaxNum)) THEN None
    ELSE LET good == {n \in 0..Len(tokens) :
                         \A i \in 1..n : IsSome(ParseWord(tokens[i]))}
             len == CHOOSE n \in good : \A m \in good : m <= n
         IN  Some([i \in 1..len |-> Unwrap(ParseWord(tokens[i]))])

\* parse_words: Some(words), or None for NotProgrammer
parse_words(tokens) ==
    IF tokens = <<>> THEN None
    ELSE IF IsNone(ParseUnsigned(tokens[1], MaxNum)) THEN None
    ELSE IF \E i \in 1..Len(tokens) : IsNone(ParseWord(tokens[i])) THEN None
    ELSE Some([i \in 1..Len(tokens) |-> Unwrap(ParseWord(tokens[i]))])

\* words.get(i), 0-based
WordGet(words, i) == IF i < Len(words) THEN Some(words[i + 1]) ELSE None
IsWord(o, w) == IsSome(o) /\ Unwrap(o).w = w

ApplyResult(status, p) == [status |-> status, p |-> p]

\* the optional "@ ..." part where a dangling @ already sets full
ApplyAtAssumeFull(words, i, p) ==
    LET w == WordGet(words, i)
        v == WordGet(words, i + 1)
    IN  IF IsNone(w) THEN ApplyResult("Applied", p)
        ELSE IF IsWord(w, "At")
        THEN IF IsWord(v, "Full")
             THEN ApplyResult("Applied", set_intensity_percent(p, 100))
             ELSE IF IsWord(v, "Out")
             THEN ApplyResult("Applied", set_intensity_percent(p, 0))
             ELSE IF IsWord(v, "Num") /\ Unwrap(v).n <= 100
             THEN ApplyResult("Applied", set_intensity_percent(p, Unwrap(v).n))
             ELSE ApplyResult("Incomplete", set_intensity_percent(p, 100))
        ELSE ApplyResult("Applied", p)

\* the optional "@ full|out|<0..100>" part, from word index i on
ApplyAt(words, i, p) ==
    LET w == WordGet(words, i)
        v == WordGet(words, i + 1)
    IN  IF IsNone(w) THEN ApplyResult("Applied", p)
        ELSE IF IsWord(w, "At")
        THEN IF IsWord(v, "Full")
             THEN ApplyResult("Applied", set_intensity_percent(p, 100))
             ELSE IF IsWord(v, "Out")
             THEN ApplyResult("Applied", set_intensity_percent(p, 0))
             ELSE IF IsWord(v, "Num") /\ Unwrap(v).n <= 100
             THEN ApplyResult("Applied", set_intensity_percent(p, Unwrap(v).n))
             ELSE ApplyResult("Incomplete", p)
        ELSE ApplyResult("Applied", p)

\* the selection added to the one the programmer holds
ApplySelectionAdd(p, sel_a, sel_b) ==
    IF sel_a = sel_b THEN select_one(p, sel_a) ELSE select_range(p, sel_a, sel_b)

\* the selection applied to the programmer
ApplySelection(p, sel_a, sel_b) ==
    LET cleared == [p EXCEPT !.selected = {}]
    IN  IF sel_a = sel_b THEN select_one(cleared, sel_a)
        ELSE select_range(cleared, sel_a, sel_b)

\* try_apply_programmer_line that selects <a> before it looks for <b>
try_apply_line_eager(line, p) ==
    LET parsed == parse_words(line)
    IN  IF IsNone(parsed) THEN ApplyResult("NotProgrammer", p)
        ELSE LET words == Unwrap(parsed)
                 a == WordGet(words, 0)
             IN  IF ~IsWord(a, "Num") THEN ApplyResult("NotProgrammer", p)
                 ELSE IF IsWord(WordGet(words, 1), "Thru")
                 THEN IF IsWord(WordGet(words, 2), "Num")
                      THEN ApplyAt(words, 3,
                                   ApplySelection(p, Unwrap(a).n,
                                                  Unwrap(WordGet(words, 2)).n))
                      ELSE ApplyResult("Incomplete",
                                       ApplySelection(p, Unwrap(a).n, Unwrap(a).n))
                 ELSE ApplyAt(words, 1, ApplySelection(p, Unwrap(a).n, Unwrap(a).n))

\* try_apply_programmer_line: the status and the programmer after the call
try_apply_programmer_line(line, p) ==
    LET parsed == parse_words(line)
    IN  IF IsNone(parsed) THEN ApplyResult("NotProgrammer", p)
        ELSE LET words == Unwrap(parsed)
                 a == WordGet(words, 0)
             IN  IF ~IsWord(a, "Num") THEN ApplyResult("NotProgrammer", p)
                 ELSE IF IsWord(WordGet(words, 1), "Thru")
                 THEN IF IsWord(WordGet(words, 2), "Num")
                      THEN ApplyAt(words, 3,
                                   ApplySelection(p, Unwrap(a).n,
                                                  Unwrap(WordGet(words, 2)).n))
                      ELSE ApplyResult("Incomplete", p)
                 ELSE ApplyAt(words, 1, ApplySelection(p, Unwrap(a).n, Unwrap(a).n))

(***************************************************************************)
(* The shows the runs start from (the REPL loads the show from a file) and *)
(* the time values an operator types.                                      *)
(***************************************************************************)
FV(i, r, g, b) == [intensity |-> i, r |-> r, g |-> g, b |-> b]
Cue(block, fade, delay, changes) ==
    [block |-> block, fade_ms |-> U32(fade), delay_ms |-> U32(delay), changes |-> changes]
CueAt(block, fade_ms, delay_ms, changes) ==
    [block |-> block, fade_ms |-> fade_ms, delay_ms |-> delay_ms, changes |-> changes]

\* a fade of two and a half hours, and a tick that lands late in it
LongFade == 9000 * 1000
LongTick == 8500 * 1000

\* no cues at all
ShowEmpty == <<>>

\* cue 1 snaps red to 0, cue 2 fades red to 255 in 1 s (the fade test of
\* playback.rs), cue 3 brings in a second fixture after a delay
ShowFade ==
    (1 :> Cue(FALSE, 0, 0, (1 :> FV(None, Some(0), None, None))))
    @@ (2 :> Cue(FALSE, 1000, 0, (1 :> FV(None, Some(255), None, None))))
    @@ (3 :> Cue(FALSE, 1000, 500, (1 :> FV(None, Some(100), None, None))
                                   @@ (2 :> FV(None, None, Some(50), None))))

\* timed cues on different fixtures, a block cue, a delay-only cue
ShowChain ==
    (1 :> Cue(FALSE, 1000, 500, (1 :> FV(Some(255), Some(100), None, None))))
    @@ (2 :> Cue(TRUE, 1000, 0, (2 :> FV(Some(10), None, Some(200), None))))
    @@ (3 :> Cue(TRUE, 0, 500, (1 :> FV(None, Some(200), None, None))))

\* cue numbers with a gap, a very long fade, and a delay of u32::MAX
ShowLong ==
    (1 :> Cue(FALSE, LongFade, 0, (1 :> FV(None, Some(255), None, None))))
    @@ (3 :> CueAt(FALSE, U32(1000), U32Max, (1 :> FV(None, None, None, Some(255)))))

Shows == {ShowEmpty, ShowFade, ShowChain, ShowLong}

\* the dt of a tick command
TickMs == {U32(250), U32(500), U32(LongTick), U32Max}

Modes == {"Tracking", "CueOnly"}

\* the fixture types: default_fixture_types and a six-channel moving light
FixtureTypes ==
    [rgb_par_3ch |-> <<"ColorR", "ColorG", "ColorB">>,
     dimmer_1ch |-> <<"Intensity">>,
     mover_6ch |-> <<"Intensity", "Pan", "Tilt", "ColorR", "ColorG", "ColorB">>]

FixtureInstance(fixture_type, universe, address) ==
    [fixture_type |-> fixture_type, universe |-> universe, address |-> address]

\* Patch::default: no fixture types, no fixtures
PatchNew == [fixture_types |-> EmptyMap, fixtures |-> EmptyMap]

\* Patch::add_fixture_type: registers the type, replacing one of that id
add_fixture_type(self, type_id, channels) ==
    [self EXCEPT !.fixture_types = MapInsert(@, type_id, channels)]

\* add_fixture without the check of the fixture type
add_fixture_any_type(self, fixture_id, fixture) ==
    IF fixture_id \in DOMAIN self.fixtures
    THEN [ok |-> FALSE, patch |-> self]
    ELSE [ok |-> TRUE,
          patch |-> [self EXCEPT !.fixtures = MapInsert(@, fixture_id, fixture)]]

\* Patch::add_fixture: whether it returned Ok, and the patch after the call
add_fixture(self, fixture_id, fixture) ==
    IF fixture_id \in DOMAIN self.fixtures
    THEN [ok |-> FALSE, patch |-> self]
    ELSE IF fixture.fixture_type \notin DOMAIN self.fixture_types
    THEN [ok |-> FALSE, patch |-> self]
    ELSE [ok |-> TRUE,
          patch |-> [self EXCEPT !.fixtures = MapInsert(@, fixture_id, fixture)]]

\* fixture 1 a moving light at U1@1, fixture 2 an RGB par at U2@510
PatchGood ==
    [fixture_types |-> FixtureTypes,
     fixtures |-> (1 :> FixtureInstance("mover_6ch", 1, 1))
                  @@ (2 :> FixtureInstance("rgb_par_3ch", 2, DmxMax - 2))]

\* fixture 2 runs past address 512 with its third channel
PatchPastEnd ==
    [PatchGood EXCEPT !.fixtures[2] = FixtureInstance("rgb_par_3ch", 2, DmxMax - 1)]

\* fixture 1 patched at address 0
PatchAtZero ==
    [PatchGood EXCEPT !.fixtures[1] = FixtureInstance("mover_6ch", 1, 0)]

\* fixture 2 of a type the show file does not register
PatchNoType ==
    [PatchGood EXCEPT !.fixtures[2] = FixtureInstance("strobe_2ch", 2, 20)]

\* fixture 2 not patched
PatchOne ==
    [fixture_types |-> FixtureTypes,
     fixtures |-> (1 :> FixtureInstance("mover_6ch", 1, 1))]

Patches == {PatchGood, PatchPastEnd, PatchAtZero, PatchNoType, PatchOne}

\* the programmer lines an operator types
LineOne == << <<"1">> >>
LineRangeFull == << <<"1">>, <<"t", "h", "r", "u">>, <<"2">>, <<"@">>, <<"f", "u", "l", "l">> >>
LineTwoAtHalf == << <<"2">>, <<"@">>, <<"5", "0">> >>
LineThree == << <<"3">> >>
LineDanglingThru == << <<"2">>, <<"T", "H", "R", "U">> >>
LineDanglingAt == << <<"1">>, <<"@">> >>
LineHelp == << <<"h", "e", "l", "p">> >>
ProgLines ==
    {LineOne, LineRangeFull, LineTwoAtHalf, LineThree, LineDanglingThru,
     LineDanglingAt, LineHelp}

\* further lines of the command language, for the parser on its own
LineEmpty == <<>>
LineRangeDown == << <<"3">>, <<"t", "h", "r", "u">>, <<"1">>, <<"@">>, <<"9", "9">> >>
LineRangeAtHalf == << <<"1">>, <<"t", "h", "r", "u">>, <<"2">>, <<"@">>, <<"5", "0">> >>
LineRangeDanglingAt == << <<"1">>, <<"T", "h", "r", "u">>, <<"3">>, <<"@">> >>
LineAtOut == << <<"1">>, <<"@">>, <<"O", "U", "T">> >>
LineAtZero == << <<"2">>, <<"@">>, <<"0">> >>
LineAtHundred == << <<"3">>, <<"@">>, <<"1", "0", "0">> >>
LineAtOver == << <<"1">>, <<"@">>, <<"1", "5", "0">> >>
LineAtOverU8 == << <<"2">>, <<"@">>, <<"3", "0", "0">> >>
LineNoAt == << <<"3">>, <<"f", "u", "l", "l">> >>
LineBadTail == << <<"1">>, <<"t", "h", "r", "u">>, <<"2">>, <<"f", "o", "o">> >>
LineBadLevel == << <<"2">>, <<"@">>, <<"5", "0", "%">> >>
LineMinus == << <<"-", "1">> >>
LinePlus == << <<"+", "2">> >>
LineThruFirst == << <<"t", "h", "r", "u">>, <<"2">> >>
ParseLines ==
    ProgLines \cup
    {LineEmpty, LineRangeDown, LineRangeAtHalf, LineRangeDanglingAt, LineAtOut,
     LineAtZero, LineAtHundred, LineAtOver, LineAtOverU8, LineNoAt, LineBadTail,
     LineBadLevel, LineMinus, LinePlus, LineThruFirst}

\* the arguments of `at <pct>`: a u8
AtPercents == {0, 1, 50, 99, 100, 101, 200, U8Max}

Call(op, pb, arg, status, val) ==
    [op |-> op, pb |-> pb, arg |-> arg, status |-> status, val |-> val, pre |-> playback]

(***************************************************************************)
(* The REPL commands (console_cli/src/main.rs).                            *)
(***************************************************************************)
\* a call returned an error: the REPL passed it on with `?` and ended
Exited == last.status = "Err"

Running == ~panicked /\ ~Exited /\ steps < MaxSteps

\* The call computes an output (activate's `from`) that panics: in every
\* build when the division overflows; when only a multiplication or an
\* addition overflows, a build with overflow checks panics and a build
\* without them goes on with the wrapped value.
MustPanic(self) == output_panics(self, cue_lists, FALSE)
MayPanic(self) == output_panics(self, cue_lists, TRUE)

Panics(op, arg) ==
    /\ panicked' = TRUE
    /\ last' = Call(op, active_pb, arg, "Panic", None)
    /\ UNCHANGED <<cue_lists, playback, active_pb, edited, patch, programmer>>

\* `goto <n>`: activate computes the visible output first, which may panic,
\* and looks the cue list up after it
CmdGoto(n) ==
    /\ Running
    /\ steps' = steps + 1
    /\ UNCHANGED <<patch, programmer>>
    /\ LET self == playback[active_pb]
       IN  \/ /\ MayPanic(self)
              /\ Panics("goto", n)
           \/ /\ ~MustPanic(self)
              /\ IF ~HasList(self, cue_lists)
                 THEN /\ last' = Call("goto", active_pb, n, "Err", None)
                      /\ UNCHANGED <<cue_lists, playback, panicked, active_pb, edited>>
                 ELSE /\ playback' = [playback EXCEPT
                                        ![active_pb] = goto(self, cue_lists, n)]
                      /\ last' = Call("goto", active_pb, n, "Ok", None)
                      /\ edited' = [edited EXCEPT ![active_pb] = FALSE]
                      /\ UNCHANGED <<cue_lists, panicked, active_pb>>

\* `go`
CmdGo ==
    /\ Running
    /\ steps' = steps + 1
    /\ UNCHANGED <<patch, programmer>>
    /\ LET self == playback[active_pb]
       IN  IF ~HasList(self, cue_lists)
           THEN /\ last' = Call("go", active_pb, None, "Err", None)
                /\ UNCHANGED <<cue_lists, playback, panicked, active_pb, edited>>
           ELSE \/ /\ go_activates(self, cue_lists)
                   /\ MayPanic(self)
                   /\ Panics("go", None)
                \/ /\ ~(go_activates(self, cue_lists) /\ MustPanic(self))
                   /\ playback' = [playback EXCEPT ![active_pb] = go(self, cue_lists)]
                   /\ last' = Call("go", active_pb, None, "Ok",
                                   go(self, cue_lists).current)
                   /\ edited' = [edited EXCEPT ![active_pb] = FALSE]
                   /\ UNCHANGED <<cue_lists, panicked, active_pb>>

\* `tick <ms>`: Runtime::tick forwards to both playbacks
CmdTick(dt_ms) ==
    /\ Running
    /\ steps' = steps + 1
    /\ UNCHANGED <<patch, programmer>>
    /\ playback' = [p \in PBs |-> tick(playback[p], dt_ms)]
    /\ last' = Call("tick", active_pb, dt_ms, "Ok", None)
    /\ UNCHANGED <<cue_lists, panicked, active_pb, edited>>

\* `pbmode tracking|cueonly`
CmdPbMode(mode) ==
    /\ Running
    /\ steps' = steps + 1
    /\ UNCHANGED <<patch, programmer>>
    /\ playback' = [playback EXCEPT ![active_pb].mode = mode]
    /\ last' = Call("pbmode", active_pb, mode, "Ok", None)
    /\ edited' = [edited EXCEPT ![active_pb] = @ \/ playback[active_pb].mode # mode]
    /\ UNCHANGED <<cue_lists, panicked, active_pb>>

\* `pb a|b`
CmdPb(p) ==
    /\ Running
    /\ steps' = steps + 1
    /\ UNCHANGED <<patch, programmer>>
    /\ active_pb' = p
    /\ last' = Call("pb", active_pb, p, "Ok", None)
    /\ UNCHANGED <<cue_lists, playback, panicked, edited>>

\* Playback::state_map: tracked_state or cue_only_state at the current cue,
\* unresolved; empty when the playback has no current cue
state_map(self, show) ==
    IF IsNone(self.current) THEN EmptyMap
    ELSE state_map_at(self, show, Unwrap(self.current))

\* snapshot_fixture_values: the playback's state_map entry of the fixture
\* (unset -> 0) with the programmer's set values on top
snapshot_fixture_values(show, pb, prog, fixture_id) ==
    LET tracked == state_map(pb, show)
        base == MapGet(tracked, fixture_id)
        field(c) == IF IsSome(base) THEN UnwrapOr(Unwrap(base)[c], 0) ELSE 0
        pick(c) == IF IsSome(prog[c]) THEN Unwrap(prog[c]) ELSE field(c)
    IN  FV(Some(pick("intensity")), Some(pick("r")), Some(pick("g")), Some(pick("b")))

\* the timing a recorded cue gets: rec_fade_ms and rec_delay_ms at their
\* initial values
RecFadeMs == 1000
RecDelayMs == 0

\* `record cue <n> only`: with nothing selected the handler only prints;
\* the new cue replaces any cue of that number
CmdRecordOnly(num) ==
    /\ Running
    /\ IF programmer.selected = {}
       THEN UNCHANGED vars
       ELSE /\ steps' = steps + 1
            /\ LET changes == [fid \in programmer.selected |->
                                  snapshot_fixture_values(cue_lists, playback[active_pb],
                                                          programmer, fid)]
                   cue == Cue(FALSE, RecFadeMs, RecDelayMs, changes)
               IN  cue_lists' = [cue_lists EXCEPT !["main"] = MapInsert(@, num, cue)]
            /\ last' = Call("record_only", active_pb, num, "Ok", cue_lists)
            /\ edited' = [p \in PBs |-> TRUE]
            /\ UNCHANGED <<playback, panicked, active_pb, patch, programmer>>

\* `update cue <n> only`: with nothing selected or no such cue the handler
\* only prints; the snapshots replace the selected fixtures' changes
CmdUpdateOnly(num) ==
    /\ Running
    /\ LET cl == cue_lists["main"]
       IN  IF programmer.selected = {} \/ num \notin DOMAIN cl
           THEN UNCHANGED vars
           ELSE /\ steps' = steps + 1
                /\ LET old == cl[num].changes
                       changes == [fid \in (DOMAIN old) \cup programmer.selected |->
                                      IF fid \in programmer.selected
                                      THEN snapshot_fixture_values(cue_lists,
                                               playback[active_pb], programmer, fid)
                                      ELSE old[fid]]
                   IN  cue_lists' = [cue_lists EXCEPT !["main"][num].changes = changes]
                /\ last' = Call("update_only", active_pb, num, "Ok", cue_lists)
                /\ edited' = [p \in PBs |-> TRUE]
                /\ UNCHANGED <<playback, panicked, active_pb, patch, programmer>>

\* default_fixture_types registered one by one, as `new` does
CmdAddFixtureType(type_id) ==
    /\ ~panicked
    /\ patch' = add_fixture_type(patch, type_id, FixtureTypes[type_id])
    /\ last' = Call("add_fixture_type", active_pb, type_id, "Ok", patch)
    /\ UNCHANGED <<cue_lists, playback, panicked, active_pb, steps, edited, programmer>>

\* `add-fixture <show.json> <id> <name> <type> <universe> <address>`: the
\* show is saved only when add_fixture returned Ok
CmdAddFixture(fixture_id, fixture_type, universe, address) ==
    /\ ~panicked
    /\ LET fixture == FixtureInstance(fixture_type, universe, address)
           res == add_fixture(patch, fixture_id, fixture)
       IN  /\ patch' = res.patch
           /\ last' = Call("add_fixture", active_pb, <<fixture_id, fixture>>,
                           IF res.ok THEN "Ok" ELSE "Err", patch)
    /\ UNCHANGED <<cue_lists, playback, panicked, active_pb, steps, edited, programmer>>

\* `delete cue <n>`; for an unknown cue the handler only prints
CmdDeleteCue(num) ==
    /\ Running
    /\ LET cl == cue_lists["main"]
       IN  IF num \notin DOMAIN cl
           THEN UNCHANGED vars
           ELSE /\ steps' = steps + 1
                /\ UNCHANGED <<patch, programmer>>
                /\ cue_lists' = [cue_lists EXCEPT
                                   !["main"] = [k \in (DOMAIN cl) \ {num} |-> cl[k]]]
                /\ playback' = [p \in PBs |-> on_cue_deleted(playback[p], num)]
                /\ last' = Call("delete", active_pb, num, "Ok", None)
                /\ edited' = [p \in PBs |-> TRUE]
                /\ UNCHANGED <<panicked, active_pb>>

\* `block <n>` / `unblock <n>`; for an unknown cue the handler only prints
CmdBlock(num, new_value) ==
    /\ Running
    /\ LET cl == cue_lists["main"]
       IN  IF num \notin DOMAIN cl
           THEN UNCHANGED vars
           ELSE /\ steps' = steps + 1
                /\ UNCHANGED <<patch, programmer>>
                /\ cue_lists' = [cue_lists EXCEPT !["main"][num].block = new_value]
                /\ last' = Call("block", active_pb, <<num, new_value>>, "Ok", None)
                /\ edited' = [p \in PBs |-> edited[p] \/ cl[num].block # new_value]
                /\ UNCHANGED <<playback, panicked, active_pb>>

\* a line starting with a number goes to try_apply_programmer_line; any other
\* line comes back NotProgrammer and is dispatched as a command (`help`)
CmdProgLine(line) ==
    /\ Running
    /\ steps' = steps + 1
    /\ LET res == try_apply_programmer_line(line, programmer)
       IN  /\ programmer' = res.p
           /\ last' = Call("line", active_pb, line, res.status, programmer)
    /\ UNCHANGED <<cue_lists, playback, panicked, active_pb, edited, patch>>

\* `at <0..100>`: the argument is parsed as a u8
CmdAt(pct) ==
    /\ Running
    /\ steps' = steps + 1
    /\ programmer' = set_intensity_percent(programmer, pct)
    /\ last' = Call("at", active_pb, pct, "Ok", programmer)
    /\ UNCHANGED <<cue_lists, playback, panicked, active_pb, edited, patch>>

\* `rgb <r> <g> <b>`
CmdRgb(r, g, b) ==
    /\ Running
    /\ steps' = steps + 1
    /\ programmer' = set_rgb(programmer, r, g, b)
    /\ last' = Call("rgb", active_pb, <<r, g, b>>, "Ok", None)
    /\ UNCHANGED <<cue_lists, playback, panicked, active_pb, edited, patch>>

\* Palette::new
Palette(kind, values) == [kind |-> kind, values |-> values]

\* the palettes of the show file (show.palettes), by name; a palette of either
\* kind may carry values in the fields of the other kind
ShowPalettes ==
    [name \in {"dim", "nolevel", "red", "blue"} |->
        CASE name = "dim" -> Palette("Intensity", FV(Some(128), Some(9), None, Some(7)))
          [] name = "nolevel" -> Palette("Intensity", FV(None, Some(5), Some(6), None))
          [] name = "red" -> Palette("Color", FV(Some(77), Some(255), Some(0), None))
          [] name = "blue" -> Palette("Color", FV(None, None, None, Some(200)))]

PaletteNames == DOMAIN ShowPalettes \cup {"nope"}

\* `apply palette <name>`: an unknown name prints a message and changes nothing
CmdApplyPalette(name) ==
    /\ Running
    /\ steps' = steps + 1
    /\ IF name \in DOMAIN ShowPalettes
       THEN /\ programmer' = apply_palette(programmer, ShowPalettes[name])
            /\ last' = Call("apply", active_pb, name, "Ok", programmer)
       ELSE /\ programmer' = programmer
            /\ last' = Call("apply", active_pb, name, "Unknown", programmer)
    /\ UNCHANGED <<cue_lists, playback, panicked, active_pb, edited, patch>>

\* `clear`
CmdClear ==
    /\ Running
    /\ steps' = steps + 1
    /\ programmer' = clear_all(programmer)
    /\ last' = Call("clear", active_pb, None, "Ok", None)
    /\ UNCHANGED <<cue_lists, playback, panicked, active_pb, edited, patch>>

\* `out`: Runtime::render; it changes nothing of the runtime, so it is not
\* counted as a step.  The outputs of A and B are computed first and may
\* panic; an error ends the REPL.
CmdOut ==
    /\ ~panicked
    /\ ~Exited
    /\ \/ /\ \E p \in PBs : MayPanic(playback[p])
          /\ Panics("out", None)
          /\ UNCHANGED steps
       \/ /\ \A p \in PBs : ~MustPanic(playback[p])
          /\ LET res == runtime_render(playback, cue_lists, patch, programmer)
             IN  last' = Call("out", active_pb, None,
                              IF res.ok THEN "Ok" ELSE "Err", res.live)
          /\ UNCHANGED <<cue_lists, playback, panicked, active_pb, steps, edited,
                         patch, programmer>>

(***************************************************************************)
(* The REPL session: a show is loaded, both playbacks start idle.          *)
(***************************************************************************)
Init ==
    /\ cue_lists \in {("main" :> s) : s \in Shows}
    /\ playback = [p \in PBs |-> PlaybackNew("main")]
    /\ panicked = FALSE
    /\ active_pb = "a"
    /\ steps = 0
    /\ edited = [p \in PBs |-> FALSE]
    /\ last = [op |-> "new", pb |-> "a", arg |-> None, status |-> "Ok", val |-> None,
               pre |-> [p \in PBs |-> PlaybackNew("main")]]
    /\ patch = PatchGood
    /\ programmer = ProgrammerNew

Next ==
    \/ \E n \in GotoNums : CmdGoto(n)
    \/ CmdGo
    \/ \E dt \in TickMs : CmdTick(dt)
    \/ \E m \in Modes : CmdPbMode(m)
    \/ \E p \in PBs : CmdPb(p)
    \/ \E n \in CueNums : CmdDeleteCue(n)
    \/ \E n \in CueNums, v \in BOOLEAN : CmdBlock(n, v)

Spec == Init /\ [][Next]_vars

(***************************************************************************)
(* The REPL session left to run: goto, go and pb are entered a bounded     *)
(* number of times, `tick <ms>` any number of times.  The operator keeps   *)
(* entering ticks of more than 0 ms for as long as the program runs, which *)
(* is the weak fairness of the positive ticks.  The ticks are on the scale *)
(* of the show's timings.                                                  *)
(***************************************************************************)
HalfRange == <<Limb \div 2, 0>>

LiveTickMs(show) ==
    IF show = ShowLong THEN {U32Zero, HalfRange, U32Max}
    ELSE {U32Zero, U32(250), U32(500), U32Max}

\* `tick <ms>`, not counted in steps
CmdTickOn(dt_ms) ==
    /\ ~panicked
    /\ ~Exited
    /\ playback' = [p \in PBs |-> tick(playback[p], dt_ms)]
    /\ last' = Call("tick", active_pb, dt_ms, "Ok", None)
    /\ UNCHANGED <<cue_lists, panicked, active_pb, steps, edited, patch, programmer>>

PositiveTick == \E dt \in LiveTickMs(cue_lists["main"]) \ {U32Zero} : CmdTickOn(dt)

\* the commands entered before the session is left to its ticks
LiveSteps == MaxSteps - 1

NextTicking ==
    \/ steps < LiveSteps /\ \E n \in GotoNums : CmdGoto(n)
    \/ steps < LiveSteps /\ CmdGo
    \/ steps < LiveSteps /\ \E p \in PBs : CmdPb(p)
    \/ \E dt \in LiveTickMs(cue_lists["main"]) : CmdTickOn(dt)

SpecTicking == Init /\ [][NextTicking]_vars /\ WF_vars(PositiveTick)

(***************************************************************************)
(* Playbacks on two cue lists: playback B is made with Playback::new on a  *)
(* second list, "chase", and the caller may take a cue list out of the     *)
(* show (cue_lists is a public map) between two calls, also while the      *)
(* playback on it is in a transition.                                      *)
(***************************************************************************)
ListNames == {"main", "chase"}

\* show.cue_lists.remove(name)
CmdRemoveList(name) ==
    /\ Running
    /\ name \in DOMAIN cue_lists
    /\ steps' = steps + 1
    /\ cue_lists' = [k \in (DOMAIN cue_lists) \ {name} |-> cue_lists[k]]
    /\ last' = Call("remove", active_pb, name, "Ok", None)
    /\ UNCHANGED <<playback, panicked, active_pb, edited, patch, programmer>>

InitLists ==
    /\ cue_lists \in {("main" :> s) @@ ("chase" :> ShowChain) : s \in {ShowFade, ShowLong}}
    /\ playback = ("a" :> PlaybackNew("main")) @@ ("b" :> PlaybackNew("chase"))
    /\ panicked = FALSE
    /\ active_pb = "a"
    /\ steps = 0
    /\ edited = [p \in PBs |-> FALSE]
    /\ last = [op |-> "new", pb |-> "a", arg |-> None, status |-> "Ok", val |-> None,
               pre |-> ("a" :> PlaybackNew("main")) @@ ("b" :> PlaybackNew("chase"))]
    /\ patch = PatchGood
    /\ programmer = ProgrammerNew

NextLists ==
    \/ \E n \in GotoNums : CmdGoto(n)
    \/ CmdGo
    \/ \E dt \in TickMs : CmdTick(dt)
    \/ \E p \in PBs : CmdPb(p)
    \/ \E name \in ListNames : CmdRemoveList(name)

SpecLists == InitLists /\ [][NextLists]_vars

(***************************************************************************)
(* The REPL session with the programmer and `out`: shows whose patch has   *)
(* unpatched fixtures, unregistered types and addresses at the edges.      *)
(***************************************************************************)
RenderGoto == {1, 2}
RenderTickMs == {U32(750), U32(LongTick)}

InitRender ==
    /\ \E s \in {ShowChain, ShowLong}, pt \in Patches :
           /\ (s = ShowLong => pt = PatchGood)
           /\ cue_lists = ("main" :> s)
           /\ patch = pt
    /\ playback = [p \in PBs |-> PlaybackNew("main")]
    /\ panicked = FALSE
    /\ active_pb = "a"
    /\ steps = 0
    /\ edited = [p \in PBs |-> FALSE]
    /\ last = [op |-> "new", pb |-> "a", arg |-> None, status |-> "Ok", val |-> None,
               pre |-> [p \in PBs |-> PlaybackNew("main")]]
    /\ programmer = ProgrammerNew

NextRender ==
    \/ \E n \in RenderGoto : CmdGoto(n)
    \/ \E dt \in RenderTickMs : CmdTick(dt)
    \/ \E p \in PBs : CmdPb(p)
    \/ \E line \in ProgLines : CmdProgLine(line)
    \/ CmdRgb(10, 20, 30)
    \/ CmdClear
    \/ CmdOut

SpecRender == InitRender /\ [][NextRender]_vars

(***************************************************************************)
(* The programmer on its own: lines of the command language and the `at`,  *)
(* `rgb` and `clear` commands, entered one after another.                  *)
(***************************************************************************)
InitProg ==
    /\ cue_lists = ("main" :> ShowEmpty)
    /\ patch = PatchGood
    /\ playback = [p \in PBs |-> PlaybackNew("main")]
    /\ panicked = FALSE
    /\ active_pb = "a"
    /\ steps = 0
    /\ edited = [p \in PBs |-> FALSE]
    /\ last = [op |-> "new", pb |-> "a", arg |-> None, status |-> "Ok", val |-> None,
               pre |-> [p \in PBs |-> PlaybackNew("main")]]
    /\ programmer = ProgrammerNew

NextProg ==
    \/ \E line \in ParseLines : CmdProgLine(line)
    \/ \E pct \in AtPercents : CmdAt(pct)
    \/ CmdRgb(10, 20, 30)
    \/ CmdClear
    \/ \E name \in PaletteNames : CmdApplyPalette(name)

SpecProg == InitProg /\ [][NextProg]_vars

(***************************************************************************)
(* Recording: cues are played, fixtures are selected and given values, and *)
(* the look is recorded or updated as a cue with `only`.                   *)
(***************************************************************************)
RecordShows == {ShowFade, ShowLong}
RecordGoto == {1, 2}
RecordTickMs == {U32(500), U32(LongTick)}
RecordLines == {LineOne, LineRangeFull}
RecordNums == {2, 4}

InitRecord ==
    /\ \E s \in RecordShows : cue_lists = ("main" :> s)
    /\ patch = PatchGood
    /\ playback = [p \in PBs |-> PlaybackNew("main")]
    /\ panicked = FALSE
    /\ active_pb = "a"
    /\ steps = 0
    /\ edited = [p \in PBs |-> FALSE]
    /\ last = [op |-> "new", pb |-> "a", arg |-> None, status |-> "Ok", val |-> None,
               pre |-> [p \in PBs |-> PlaybackNew("main")]]
    /\ programmer = ProgrammerNew

NextRecord ==
    \/ \E n \in RecordGoto : CmdGoto(n)
    \/ \E dt \in RecordTickMs : CmdTick(dt)
    \/ \E m \in Modes : CmdPbMode(m)
    \/ \E line \in RecordLines : CmdProgLine(line)
    \/ CmdRgb(10, 20, 30)
    \/ \E n \in RecordNums : CmdRecordOnly(n)
    \/ \E n \in RecordNums : CmdUpdateOnly(n)

SpecRecord == InitRecord /\ [][NextRecord]_vars

(***************************************************************************)
(* Patching: a new show's patch, fixture types registered and fixtures     *)
(* added in any order.                                                     *)
(***************************************************************************)
PatchTypeIds == {"rgb_par_3ch", "dimmer_1ch"}
PatchFixtureIds == {1, 2}
PatchFixtureTypes == {"rgb_par_3ch", "dimmer_1ch", "strobe_2ch"}
PatchAddresses == {0, 1, DmxMax - 2, DmxMax - 1, DmxMax}

InitPatch ==
    /\ cue_lists = ("main" :> ShowEmpty)
    /\ patch = PatchNew
    /\ playback = [p \in PBs |-> PlaybackNew("main")]
    /\ panicked = FALSE
    /\ active_pb = "a"
    /\ steps = 0
    /\ edited = [p \in PBs |-> FALSE]
    /\ last = [op |-> "new", pb |-> "a", arg |-> None, status |-> "Ok", val |-> None,
               pre |-> [p \in PBs |-> PlaybackNew("main")]]
    /\ programmer = ProgrammerNew

NextPatch ==
    \/ \E tid \in PatchTypeIds : CmdAddFixtureType(tid)
    \/ \E fid \in PatchFixtureIds, tid \in PatchFixtureTypes, addr \in PatchAddresses :
           CmdAddFixture(fid, tid, 1, addr)

SpecPatch == InitPatch /\ [][NextPatch]_vars

(***************************************************************************)
(* lerp_u8 on its own: the end points, the fade and the time into the fade *)
(* are drawn, and the function is evaluated once.  A build with overflow   *)
(* checks panics where the i32 arithmetic overflows, a build without them  *)
(* wraps.                                                                  *)
(***************************************************************************)
LerpValues == {0, 1, 100, 128, 255}
HugeFade == 20000 * 1000
LerpDurs == {U32(1), U32(2), U32(3), U32(1000), U32(LongFade), U32(HugeFade)}

\* x / 2 on a u32
UHalf(x) == <<x[1] \div 2, ((x[1] % 2) * Limb + x[2]) \div 2>>

\* times into a fade of dur: the start, the midpoint, the end and points between
LerpTimes(dur) ==
    {t \in {U32Zero, U32(1), U32(500), UHalf(dur), U32(LongTick),
            U32(14000 * 1000), dur} : ULe(t, dur)}

InitLerp ==
    /\ cue_lists = ("main" :> ShowEmpty)
    /\ playback = [p \in PBs |-> PlaybackNew("main")]
    /\ panicked = FALSE
    /\ active_pb = "a"
    /\ steps = 0
    /\ edited = [p \in PBs |-> FALSE]
    /\ \E a \in LerpValues, b \in LerpValues, dur \in LerpDurs :
           \E t \in LerpTimes(dur) :
               last = [op |-> "new", pb |-> "a", arg |-> <<a, b, t, dur>>,
                       status |-> "Ok", val |-> None,
                       pre |-> [p \in PBs |-> PlaybackNew("main")]]
    /\ patch = PatchGood
    /\ programmer = ProgrammerNew

\* evaluate lerp_u8(a, b, t, dur) on the arguments drawn
EvalLerp ==
    /\ steps = 0
    /\ steps' = 1
    /\ LET a == last.arg[1]
           b == last.arg[2]
           t == last.arg[3]
           dur == last.arg[4]
       IN  \/ /\ lerp_panics(a, b, t, dur, TRUE)
              /\ panicked' = TRUE
              /\ last' = Call("lerp_u8", "a", last.arg, "Panic", None)
           \/ /\ ~lerp_panics(a, b, t, dur, FALSE)
              /\ panicked' = FALSE
              /\ last' = Call("lerp_u8", "a", last.arg, "Ok", lerp_u8(a, b, t, dur))
    /\ UNCHANGED <<cue_lists, playback, active_pb, edited, patch, programmer>>

NextLerp == EvalLerp

SpecLerp == InitLerp /\ [][NextLerp]_vars

(***************************************************************************)
(* Cue-list state evaluation on its own: the cue list is drawn from a      *)
(* family of lists over cues 1..MaxCue, and tracked_state_at is evaluated  *)
(* at every cue number.  Every value a cue sets names the cue and the      *)
(* channel (10 * cue + channel index), so a result shows where it is from. *)
(***************************************************************************)
TV(n, c) == Some(10 * n + c)

TrackChanges(n) ==
    { EmptyMap,
      (1 :> FV(None, TV(n, 2), None, None)),
      (1 :> FV(TV(n, 1), None, TV(n, 3), None)),
      (1 :> FV(None, TV(n, 2), None, TV(n, 4))) @@ (2 :> FV(None, TV(n, 2), None, None)),
      (2 :> FV(None, None, TV(n, 3), TV(n, 4))),
      (1 :> FV(TV(n, 1), TV(n, 2), TV(n, 3), TV(n, 4))) @@ (2 :> FixtureValuesDefault) }

TrackCues(n) == {Cue(blk, 0, 0, ch) : blk \in BOOLEAN, ch \in TrackChanges(n)}

\* every cue list over the cue numbers D with cue n drawn from TrackCues(n)
RECURSIVE ListsOver(_)
ListsOver(D) ==
    IF D = {} THEN {EmptyMap}
    ELSE LET n == CHOOSE x \in D : \A y \in D : y <= x
         IN  {MapInsert(l, n, c) : l \in ListsOver(D \ {n}), c \in TrackCues(n)}

\* every such cue list with cue numbers among nums
TrackLists(nums) == UNION {ListsOver(D) : D \in SUBSET nums}

InitTrack ==
    /\ cue_lists \in {("main" :> l) : l \in TrackLists(CueNums)}
    /\ playback = [p \in PBs |-> PlaybackNew("main")]
    /\ panicked = FALSE
    /\ active_pb = "a"
    /\ steps = 0
    /\ edited = [p \in PBs |-> FALSE]
    /\ last = [op |-> "new", pb |-> "a", arg |-> None, status |-> "Ok", val |-> None,
               pre |-> [p \in PBs |-> PlaybackNew("main")]]
    /\ patch = PatchGood
    /\ programmer = ProgrammerNew

\* evaluate playback_a.tracked_state_at(show, k), once per run
EvalTracked(k) ==
    /\ steps = 0
    /\ steps' = 1
    /\ UNCHANGED <<patch, programmer>>
    /\ last' = Call("tracked_state_at", "a", k, "Ok",
                    tracked_state_at(playback["a"], cue_lists, k))
    /\ UNCHANGED <<cue_lists, playback, panicked, active_pb, edited>>

\* evaluate the state at k of playback_a in CueOnly mode, once per run
EvalCueOnly(k) ==
    /\ steps = 0
    /\ steps' = 1
    /\ UNCHANGED <<patch, programmer>>
    /\ last' = Call("cue_only_state_at", "a", k, "Ok",
                    state_map_at([playback["a"] EXCEPT !.mode = "CueOnly"],
                                 cue_lists, k))
    /\ UNCHANGED <<cue_lists, playback, panicked, active_pb, edited>>

NextTrack ==
    \/ \E k \in GotoNums : EvalTracked(k)
    \/ \E k \in GotoNums : EvalCueOnly(k)

SpecTrack == InitTrack /\ [][NextTrack]_vars

(***************************************************************************)
(* merge_maps over pairs of fixture-value maps with set and unset fields.  *)
(***************************************************************************)
MergeValues ==
    {FV(i, r, g, b) : i \in {None, Some(0), Some(100), Some(255)},
                      r \in {None, Some(0), Some(9)},
                      g \in {None, Some(5)},
                      b \in {None, Some(0)}}

\* fixture 1 absent or with any of MergeValues, fixture 2 absent or fixed
MergeMaps(v2) ==
    {m1 @@ m2 : m1 \in {EmptyMap} \cup {(1 :> v) : v \in MergeValues},
                m2 \in {EmptyMap, (2 :> v2)}}

InitMerge ==
    /\ cue_lists = ("main" :> ShowEmpty)
    /\ playback = [p \in PBs |-> PlaybackNew("main")]
    /\ panicked = FALSE
    /\ active_pb = "a"
    /\ steps = 0
    /\ edited = [p \in PBs |-> FALSE]
    /\ \E a \in MergeMaps(FV(Some(40), None, Some(1), Some(2))),
          b \in MergeMaps(FV(None, Some(3), Some(4), None)) :
           last = [op |-> "new", pb |-> "a", arg |-> <<a, b>>, status |-> "Ok",
                   val |-> None, pre |-> [p \in PBs |-> PlaybackNew("main")]]
    /\ patch = PatchGood
    /\ programmer = ProgrammerNew

\* evaluate merge_maps(a, b) on the pair drawn
EvalMerge ==
    /\ steps = 0
    /\ steps' = 1
    /\ UNCHANGED <<patch, programmer>>
    /\ last' = Call("merge_maps", "a", last.arg, "Ok",
                    merge_maps(last.arg[1], last.arg[2]))
    /\ UNCHANGED <<cue_lists, playback, panicked, active_pb, edited>>

NextMerge == EvalMerge

SpecMerge == InitMerge /\ [][NextMerge]_vars

MainList == cue_lists["main"]

\* cue i of the list sets channel c of fixture f
Sets(list, i, f, c) ==
    /\ i \in DOMAIN list
    /\ f \in DOMAIN list[i].changes
    /\ IsSome(list[i].changes[f][c])

\* cue j sets (f, c) again or is a block cue whose changes contain f
Overrides(list, j, f, c) ==
    /\ j \in DOMAIN list
    /\ f \in DOMAIN list[j].changes
    /\ (IsSome(list[j].changes[f][c]) \/ list[j].block)

\* cue i sets (f, c) and nothing in i+1..k overrides it
Survives(list, i, k, f, c) ==
    /\ Sets(list, i, f, c)
    /\ i <= k
    /\ \A j \in (i + 1)..k : ~Overrides(list, j, f, c)

\* C1: tracking transparency.  In the tracked state at k, channel c of
\* fixture f holds the value of the cue i <= k that set it, provided no cue
\* in i+1..k sets (f, c) or is a block cue listing f; a channel of a tracked
\* fixture for which there is no such cue is unset.
C1_TrackingTransparency ==
    last.op = "tracked_state_at" =>
        \A f \in FIDs, c \in Channels :
            /\ \A i \in DOMAIN MainList :
                   Survives(MainList, i, last.arg, f, c) =>
                       /\ f \in DOMAIN last.val
                       /\ last.val[f][c] = MainList[i].changes[f][c]
            /\ (/\ f \in DOMAIN last.val
                /\ ~\E i \in DOMAIN MainList : Survives(MainList, i, last.arg, f, c))
                   => last.val[f][c] = None

\* the tracking test of playback.rs: cue 1 sets red, cue 2 sets only blue,
\* and the state at a later cue number still has cue 1's red
C1_Witness ==
    /\ last.op = "tracked_state_at"
    /\ last.arg = 3
    /\ DOMAIN MainList = {1, 2}
    /\ MainList[1].changes = (1 :> FV(None, TV(1, 2), None, None))
    /\ MainList[2].changes = (1 :> FV(TV(2, 1), None, TV(2, 3), None))
    /\ ~MainList[2].block
    /\ last.val[1] = FV(TV(2, 1), TV(1, 2), TV(2, 3), None)

\* C2: block semantics.  At a block cue n whose changes list fixture f, the
\* tracked state of f is exactly cue n's own changes for f (so it resolves
\* to them with unset fields 0); a fixture the block cue does not list has
\* the state accumulated by the cues below n.
C2_BlockSemantics ==
    (/\ last.op = "tracked_state_at"
     /\ last.arg \in DOMAIN MainList
     /\ MainList[last.arg].block) =>
        LET cue == MainList[last.arg]
            below == tracked_state_at(playback["a"], cue_lists, last.arg - 1)
        IN  /\ \A f \in DOMAIN cue.changes :
                   /\ f \in DOMAIN last.val
                   /\ last.val[f] = cue.changes[f]
                   /\ resolve_map(last.val)[f] = resolve_map(cue.changes)[f]
            /\ \A f \in FIDs \ DOMAIN cue.changes :
                   /\ (f \in DOMAIN last.val) = (f \in DOMAIN below)
                   /\ f \in DOMAIN below => last.val[f] = below[f]

\* a block cue listing fixture 1 after a cue that set channels of fixture 1
\* (which the block cue does not set) and of fixture 2 (which it does not list)
C2_Witness ==
    /\ last.op = "tracked_state_at"
    /\ last.arg = 2
    /\ DOMAIN MainList = {1, 2}
    /\ MainList[2].block
    /\ MainList[1].changes = (1 :> FV(None, TV(1, 2), None, TV(1, 4)))
                             @@ (2 :> FV(None, TV(1, 2), None, None))
    /\ MainList[2].changes = (1 :> FV(TV(2, 1), None, TV(2, 3), None))
    /\ last.val[1] = FV(TV(2, 1), None, TV(2, 3), None)
    /\ last.val[2] = FV(None, TV(1, 2), None, None)

(***************************************************************************)
(* Properties of the playback engine, stated on the last call: Pre is the  *)
(* called playback before the call, Post the same playback after it.  The  *)
(* show is the same before and after a goto, go or tick.                   *)
(***************************************************************************)
Pre == last.pre[last.pb]
Post == playback[last.pb]
Activated == last.op \in {"goto", "go"} /\ last.status = "Ok"

Min(S) == CHOOSE x \in S : \A y \in S : x <= y

\* the transition of a playback that has one
Tr(self) == Unwrap(self.transition)

\* the playback is in the fade phase of a transition, strictly inside it
MidFade(self) ==
    /\ IsSome(self.transition)
    /\ Tr(self).fade_ms # U32Zero
    /\ ULt(Tr(self).delay_ms, Tr(self).elapsed_ms)

\* C3: chained Go.  When goto or go activates a cue with non-zero fade or
\* delay while a transition is running, the new transition starts from the
\* output as it was just before the call, with elapsed 0, and its target
\* and timing are those of the activated cue alone.
C3_ChainedGo ==
    (/\ Activated
     /\ IsSome(Pre.transition)
     /\ IsSome(Post.current)
     /\ Unwrap(Post.current) \in DOMAIN MainList
     /\ LET cue == MainList[Unwrap(Post.current)]
        IN  cue.fade_ms # U32Zero \/ cue.delay_ms # U32Zero) =>
        LET cue == MainList[Unwrap(Post.current)]
        IN  /\ IsSome(Post.transition)
            /\ Tr(Post).from = output_state_map(Pre, cue_lists)
            /\ Tr(Post).elapsed_ms = U32Zero
            /\ Tr(Post).fade_ms = cue.fade_ms
            /\ Tr(Post).delay_ms = cue.delay_ms
            /\ Tr(Post).to = resolve_map(state_map_at(Post, cue_lists, Unwrap(Post.current)))

\* a cue activated in the middle of a fade: the new start look is neither
\* the start nor the end of the fade it replaces
C3_Witness ==
    /\ Activated
    /\ MidFade(Pre)
    /\ IsSome(Post.transition)
    /\ Tr(Post).from # Tr(Pre).from
    /\ Tr(Post).from # Tr(Pre).to
    /\ Tr(Post).to # Tr(Pre).to

\* products of a small natural and a u32, as <<high part, low limb>>
BigMul(k, x) == <<k * x[1] + ((k * x[2]) \div Limb), (k * x[2]) % Limb>>
BigLe(x, y) == x[1] < y[1] \/ (x[1] = y[1] /\ x[2] <= y[2])

\* d * t / dur in exact arithmetic, rounded down (0 <= d <= 255, t <= dur, dur > 0)
ExactQuot(d, t, dur) ==
    CHOOSE q \in 0..d :
        /\ BigLe(BigMul(q, dur), BigMul(d, t))
        /\ ~BigLe(BigMul(q + 1, dur), BigMul(d, t))

\* from + (to - from) * t / dur, the division truncating toward zero, clamped
LinearValue(a, b, t, dur) ==
    Clamp(IF b >= a THEN a + ExactQuot(b - a, t, dur) ELSE a - ExactQuot(a - b, t, dur),
          0, 255)

LinearMap(from, to, t, dur) ==
    [fid \in (DOMAIN from) \cup (DOMAIN to) |->
        LET f == MapGetOr(from, fid, ZeroValues)
            tt == MapGetOr(to, fid, ZeroValues)
        IN  [c \in Channels |->
                Some(LinearValue(UnwrapOr(f[c], 0), UnwrapOr(tt[c], 0), t, dur))]]

\* C4: linear fade.  While a transition is in its fade (fade_ms > 0 and
\* elapsed >= delay) every channel of the output is
\* from + (to - from) * t / fade_ms with t = min(elapsed - delay, fade_ms),
\* truncated toward zero and clamped to 0..255.
C4_LinearFade ==
    \A p \in PBs :
        (/\ IsSome(playback[p].transition)
         /\ Tr(playback[p]).fade_ms # U32Zero
         /\ UGe(Tr(playback[p]).elapsed_ms, Tr(playback[p]).delay_ms)) =>
            LET tr == Tr(playback[p])
                t == UMin(USub(tr.elapsed_ms, tr.delay_ms), tr.fade_ms)
            IN  /\ ~output_panics(playback[p], cue_lists, TRUE)
                /\ output_state_map(playback[p], cue_lists)
                       = LinearMap(tr.from, tr.to, t, tr.fade_ms)

Output(p) == output_state_map(playback[p], cue_lists)

\* the last call was a tick that completed the transition of playback p
Completed(p) ==
    /\ last.op = "tick"
    /\ IsSome(last.pre[p].transition)
    /\ IsNone(playback[p].transition)

\* C5 as stated: at elapsed = 0 the output equals the transition's `from`,
\* and once elapsed >= delay + fade (the transition is complete) the output
\* equals the transition's `to`.
C5_EndpointsAsStated ==
    \A p \in PBs :
        /\ (IsSome(playback[p].transition) /\ Tr(playback[p]).elapsed_ms = U32Zero)
               => Output(p) = Tr(playback[p]).from
        /\ Completed(p) => Output(p) = Tr(last.pre[p]).to

\* C5, amended: at elapsed = 0 the output agrees with `from` on every
\* fixture of `from`, and any other fixture of the output is one that only
\* `to` lists, with all four channels 0; when a tick completes the
\* transition the output equals the transition's `to`, provided neither the
\* show nor the playback's mode changed since the transition started.
C5_Endpoints ==
    \A p \in PBs :
        /\ (IsSome(playback[p].transition) /\ Tr(playback[p]).elapsed_ms = U32Zero) =>
               LET tr == Tr(playback[p])
               IN  /\ \A fid \in DOMAIN tr.from :
                          fid \in DOMAIN Output(p) /\ Output(p)[fid] = tr.from[fid]
                   /\ \A fid \in (DOMAIN Output(p)) \ (DOMAIN tr.from) :
                          fid \in DOMAIN tr.to /\ Output(p)[fid] = ZeroValues
        /\ (Completed(p) /\ ~edited[p]) => Output(p) = Tr(last.pre[p]).to

\* a fade without delay has just started towards a look with a fixture the
\* start look does not have
C5_Witness ==
    \E p \in PBs :
        /\ IsSome(playback[p].transition)
        /\ Tr(playback[p]).elapsed_ms = U32Zero
        /\ Tr(playback[p]).delay_ms = U32Zero
        /\ Tr(playback[p]).from # EmptyMap
        /\ (DOMAIN Tr(playback[p]).to) \ (DOMAIN Tr(playback[p]).from) # {}

\* C6: the delay holds the start look.  While elapsed_ms < delay_ms the
\* output is exactly the transition's `from`, and a tick that leaves the
\* transition in its delay leaves that output as it was.
C6_DelayHolds ==
    \A p \in PBs :
        /\ (IsSome(playback[p].transition)
            /\ ULt(Tr(playback[p]).elapsed_ms, Tr(playback[p]).delay_ms))
               => Output(p) = Tr(playback[p]).from
        /\ (/\ last.op = "tick"
            /\ IsSome(last.pre[p].transition)
            /\ IsSome(playback[p].transition)
            /\ ULt(Tr(playback[p]).elapsed_ms, Tr(playback[p]).delay_ms))
               => /\ Output(p) = output_state_map(last.pre[p], cue_lists)
                  /\ Output(p) = Tr(last.pre[p]).from

\* a second tick inside a delay, the start look differing from the target
C6_Witness ==
    /\ last.op = "tick"
    /\ IsSome(Pre.transition)
    /\ Tr(Pre).elapsed_ms # U32Zero
    /\ IsSome(Post.transition)
    /\ ULt(Tr(Post).elapsed_ms, Tr(Post).delay_ms)
    /\ Tr(Post).from # Tr(Post).to
    /\ Tr(Post).from # EmptyMap

\* min(x + y, u32::MAX) for u32 x, y
SumCapped(x, y) == IF ULt(USub(U32Max, x), y) THEN U32Max ELSE WrappingAdd(x, y)

\* x + y for u32 x, y, not reduced: the high half may exceed 16 bits
SumExact(x, y) == <<x[1] + y[1] + ((x[2] + y[2]) \div Limb), (x[2] + y[2]) % Limb>>

\* C7 as stated: with a transition active, elapsed_ms becomes the saturating
\* sum elapsed_ms + dt_ms, and the transition is cleared exactly when the new
\* elapsed_ms >= delay_ms + fade_ms; with no transition tick changes
\* nothing; tick never changes current.
C7_TickAsStated ==
    last.op = "tick" =>
        \A p \in PBs :
            LET pre == last.pre[p]
                post == playback[p]
            IN  /\ post.current = pre.current
                /\ IsNone(pre.transition) => post = pre
                /\ IsSome(pre.transition) =>
                       LET tr == Tr(pre)
                           e == SumCapped(tr.elapsed_ms, last.arg)
                       IN  /\ IsNone(post.transition)
                                  <=> UGe(e, SumExact(tr.delay_ms, tr.fade_ms))
                           /\ IsSome(post.transition) =>
                                  Tr(post) = [tr EXCEPT !.elapsed_ms = e]

\* C7, amended: tick(dt).  With a transition active, elapsed_ms becomes
\* min(elapsed_ms + dt, u32::MAX), which is never below the old value, and
\* the transition is cleared exactly when that is >= the saturating sum of
\* delay_ms and fade_ms, min(delay_ms + fade_ms, u32::MAX); otherwise only
\* elapsed_ms changes.  With no transition tick changes nothing.  tick never
\* changes current.
C7_Tick ==
    last.op = "tick" =>
        \A p \in PBs :
            LET pre == last.pre[p]
                post == playback[p]
            IN  /\ post.current = pre.current
                /\ post.mode = pre.mode
                /\ IsNone(pre.transition) => post = pre
                /\ IsSome(pre.transition) =>
                       LET tr == Tr(pre)
                           e == SumCapped(tr.elapsed_ms, last.arg)
                           done_at == SumCapped(tr.delay_ms, tr.fade_ms)
                       IN  /\ IsNone(post.transition) <=> UGe(e, done_at)
                           /\ IsSome(post.transition) =>
                                  /\ Tr(post) = [tr EXCEPT !.elapsed_ms = e]
                                  /\ UGe(Tr(post).elapsed_ms, tr.elapsed_ms)

\* a tick takes elapsed_ms to u32::MAX in a transition whose delay_ms +
\* fade_ms exceeds u32::MAX, and the transition is cleared
C7_Witness ==
    /\ last.op = "tick"
    /\ IsSome(Pre.transition)
    /\ Tr(Pre).elapsed_ms # U32Zero
    /\ SumCapped(Tr(Pre).elapsed_ms, last.arg) = U32Max
    /\ SumExact(Tr(Pre).delay_ms, Tr(Pre).fade_ms)[1] >= Limb
    /\ IsNone(Post.transition)
    /\ Post.current = Pre.current

\* the tracked accumulation of the cues of the list numbered below n
AccumulatedBelow(n) ==
    TrackFold(MainList, Ascending({k \in DOMAIN MainList : k < n}), n, EmptyMap)

\* C8: after a goto(n) that returns Ok, current = Some(n), also when n is
\* no cue of the list; then there is no transition (timing (0, 0)) and the
\* output is the resolved state at n: in Tracking the accumulation of the
\* cues numbered below n, in CueOnly the empty map.
C8_GotoAnyNumber ==
    (last.op = "goto" /\ last.status = "Ok") =>
        /\ Post.current = Some(last.arg)
        /\ last.arg \notin DOMAIN MainList =>
               /\ IsNone(Post.transition)
               /\ Output(last.pb) =
                      resolve_map(IF Post.mode = "Tracking"
                                  THEN AccumulatedBelow(last.arg) ELSE EmptyMap)

\* goto to a number between two cues, in Tracking, while a transition runs
C8_Witness ==
    /\ last.op = "goto"
    /\ last.status = "Ok"
    /\ last.arg \notin DOMAIN MainList
    /\ \E k \in DOMAIN MainList : k < last.arg
    /\ \E k \in DOMAIN MainList : k > last.arg
    /\ IsSome(Pre.transition)
    /\ Post.mode = "Tracking"
    /\ Output(last.pb) # EmptyMap

\* C9: go() on a non-empty list, returning Ok.  From Idle it activates the
\* lowest cue number; from current = c the smallest cue number above c; if
\* there is none current stays c.  It returns the new current.
C9_GoNext ==
    (last.op = "go" /\ last.status = "Ok" /\ DOMAIN MainList # {}) =>
        LET later == {k \in DOMAIN MainList : k > Unwrap(Pre.current)}
        IN  /\ IsNone(Pre.current) => Post.current = Some(Min(DOMAIN MainList))
            /\ (IsSome(Pre.current) /\ later # {}) => Post.current = Some(Min(later))
            /\ (IsSome(Pre.current) /\ later = {}) => Post.current = Pre.current
            /\ last.val = Post.current

\* go on the last cue of a list of several cues: no wrap to the first
C9_Witness ==
    /\ last.op = "go"
    /\ last.status = "Ok"
    /\ Cardinality(DOMAIN MainList) >= 2
    /\ IsSome(Pre.current)
    /\ \A k \in DOMAIN MainList : k <= Unwrap(Pre.current)
    /\ Unwrap(Pre.current) \in DOMAIN MainList
    /\ Post.current = Pre.current

\* C10: go() on a list without cues sets current = None and
\* transition = None and returns None, whatever the playback pointed at.
C10_GoEmpty ==
    (last.op = "go" /\ last.status = "Ok" /\ DOMAIN MainList = {}) =>
        /\ Post.current = None
        /\ Post.transition = None
        /\ last.val = None

\* go on an empty list by a playback that pointed at a cue number
C10_Witness ==
    /\ last.op = "go"
    /\ last.status = "Ok"
    /\ DOMAIN MainList = {}
    /\ IsSome(Pre.current)
    /\ Post.current = None

\* all four fields of every entry of the map are set
FullyResolved(m) ==
    \A fid \in DOMAIN m : \A c \in Channels : IsSome(m[fid][c])

\* the last call activated a cue: a goto, or a go on a list with cues
ActivatedCue ==
    /\ Activated
    /\ (last.op = "go" => DOMAIN MainList # {})

\* C11: snap versus transition.  After activate(target), if the target cue
\* has fade_ms = 0 and delay_ms = 0 the playback holds no transition and its
\* output is resolve(state_at(target, mode)); otherwise it holds a
\* transition with elapsed 0, the cue's fade_ms and delay_ms, and
\* to = resolve(state_at(target, mode)).
C11_SnapOrTransition ==
    (ActivatedCue /\ Unwrap(Post.current) \in DOMAIN MainList) =>
        LET target == Unwrap(Post.current)
            cue == MainList[target]
            look == resolve_map(state_map_at(Post, cue_lists, target))
        IN  IF cue.fade_ms = U32Zero /\ cue.delay_ms = U32Zero
            THEN /\ IsNone(Post.transition)
                 /\ Output(last.pb) = look
            ELSE /\ IsSome(Post.transition)
                 /\ Tr(Post).elapsed_ms = U32Zero
                 /\ Tr(Post).fade_ms = cue.fade_ms
                 /\ Tr(Post).delay_ms = cue.delay_ms
                 /\ Tr(Post).to = look

\* a cue with a delay and no fade was activated while a transition ran
C11_Witness ==
    /\ ActivatedCue
    /\ Unwrap(Post.current) \in DOMAIN MainList
    /\ MainList[Unwrap(Post.current)].fade_ms = U32Zero
    /\ MainList[Unwrap(Post.current)].delay_ms # U32Zero
    /\ IsSome(Pre.transition)
    /\ IsSome(Post.transition)
    /\ Tr(Post).to # EmptyMap

\* C12: deleting cue n.  Every playback whose current is Some(n) becomes
\* Idle (current and transition cleared, empty output); every other
\* playback is left as it was; the delete does not fail.
C12_DeleteCue ==
    last.op = "delete" =>
        /\ last.status = "Ok"
        /\ ~panicked
        /\ last.arg \notin DOMAIN MainList
        /\ \A p \in PBs :
               IF last.pre[p].current = Some(last.arg)
               THEN /\ playback[p].current = None
                    /\ playback[p].transition = None
                    /\ Output(p) = EmptyMap
               ELSE playback[p] = last.pre[p]

\* the deleted cue was current on one playback, mid-transition, while the
\* other playback ran a transition to another cue
C12_Witness ==
    /\ last.op = "delete"
    /\ \E p, q \in PBs :
          /\ last.pre[p].current = Some(last.arg)
          /\ IsSome(last.pre[p].transition)
          /\ playback[p].current = None
          /\ IsSome(last.pre[q].current)
          /\ last.pre[q].current # Some(last.arg)
          /\ IsSome(playback[q].transition)

\* C18: resolution is total.  Every entry of every playback's output has
\* all four fields set, and so has every entry of the `from` and `to` of
\* every stored transition.
C18_ResolutionTotal ==
    \A p \in PBs :
        /\ FullyResolved(Output(p))
        /\ IsSome(playback[p].transition) =>
               /\ FullyResolved(Tr(playback[p]).from)
               /\ FullyResolved(Tr(playback[p]).to)

\* a transition between two non-empty looks whose cues leave fields unset
C18_Witness ==
    \E p \in PBs :
        /\ IsSome(playback[p].transition)
        /\ Tr(playback[p]).from # EmptyMap
        /\ Tr(playback[p]).to # Tr(playback[p]).from
        /\ \E n \in DOMAIN MainList : \E fid \in DOMAIN MainList[n].changes :
               \E c \in Channels : IsNone(MainList[n].changes[fid][c])
        /\ Output(p) # EmptyMap
        /\ last.op = "tick"

\* the list without cue j
WithoutCue(list, j) == [k \in (DOMAIN list) \ {j} |-> list[k]]

\* the state at n, in CueOnly mode, of a playback on the given list
CueOnlyAt(list, n) ==
    state_map_at([PlaybackNew("main") EXCEPT !.mode = "CueOnly"], "main" :> list, n)

\* C19: cue-only state.  In CueOnly mode the state at n is cue n's own
\* changes map, or the empty map when n is no cue of the list; deleting
\* another cue, adding another cue or changing another cue's block flag
\* does not change it.
C19_CueOnlyState ==
    last.op = "cue_only_state_at" =>
        LET n == last.arg
        IN  /\ n \in DOMAIN MainList => last.val = MainList[n].changes
            /\ n \notin DOMAIN MainList => last.val = EmptyMap
            /\ \A j \in (DOMAIN MainList) \ {n} :
                   /\ CueOnlyAt(WithoutCue(MainList, j), n) = last.val
                   /\ CueOnlyAt([MainList EXCEPT ![j].block = ~@], n) = last.val
            /\ \A j \in CueNums \ (DOMAIN MainList \cup {n}) : \A c \in TrackCues(j) :
                   CueOnlyAt(MapInsert(MainList, j, c), n) = last.val

\* the state at a cue that follows a non-block cue setting other channels of
\* the same fixture: only the cue's own changes
C19_Witness ==
    /\ last.op = "cue_only_state_at"
    /\ last.arg = 2
    /\ DOMAIN MainList = {1, 2}
    /\ MainList[1].changes = (1 :> FV(None, TV(1, 2), None, None))
    /\ MainList[2].changes = (1 :> FV(TV(2, 1), None, TV(2, 3), None))
    /\ ~MainList[2].block
    /\ last.val = (1 :> FV(TV(2, 1), None, TV(2, 3), None))

\* field c of fixture fid in map m, unset when the map has no such fixture
FieldOf(m, fid, c) == IF fid \in DOMAIN m THEN m[fid][c] ELSE None

Max(x, y) == IF x >= y THEN x ELSE y

\* C13: HTP merge.  The merged map has the fixtures of A and of B; the
\* merged intensity is unset iff it is unset in both (a missing fixture
\* counting as unset), and otherwise is max(a, b) with an unset side as 0.
C13_HtpMerge ==
    last.op = "merge_maps" =>
        LET a == last.arg[1]
            b == last.arg[2]
        IN  /\ DOMAIN last.val = (DOMAIN a) \cup (DOMAIN b)
            /\ \A fid \in (DOMAIN a) \cup (DOMAIN b) :
                   LET ai == FieldOf(a, fid, "intensity")
                       bi == FieldOf(b, fid, "intensity")
                       mi == last.val[fid].intensity
                   IN  /\ IsNone(mi) <=> (IsNone(ai) /\ IsNone(bi))
                       /\ IsSome(mi) =>
                              Unwrap(mi) = Max(UnwrapOr(ai, 0), UnwrapOr(bi, 0))

\* A has the higher intensity on a fixture both maps list, and another
\* fixture is listed by A alone
C13_Witness ==
    /\ last.op = "merge_maps"
    /\ 1 \in DOMAIN last.arg[1] /\ 1 \in DOMAIN last.arg[2]
    /\ last.arg[1][1].intensity = Some(255)
    /\ last.arg[2][1].intensity = Some(100)
    /\ last.val[1].intensity = Some(255)
    /\ 2 \in DOMAIN last.arg[1] /\ 2 \notin DOMAIN last.arg[2]
    /\ last.val[2].intensity = Some(40)

\* C14: LTP merge, B wins.  For each of r, g, b and every fixture of A or
\* B, the merged field is B's value if B has it set, otherwise A's field.
C14_LtpMerge ==
    last.op = "merge_maps" =>
        LET a == last.arg[1]
            b == last.arg[2]
        IN  \A fid \in (DOMAIN a) \cup (DOMAIN b) : \A c \in {"r", "g", "b"} :
                /\ fid \in DOMAIN last.val
                /\ IF IsSome(FieldOf(b, fid, c))
                   THEN last.val[fid][c] = FieldOf(b, fid, c)
                   ELSE last.val[fid][c] = FieldOf(a, fid, c)

\* both maps set r with different values (B's wins), only A sets g
C14_Witness ==
    /\ last.op = "merge_maps"
    /\ 1 \in DOMAIN last.arg[1] /\ 1 \in DOMAIN last.arg[2]
    /\ last.arg[1][1].r = Some(9)
    /\ last.arg[2][1].r = Some(0)
    /\ last.val[1].r = Some(0)
    /\ last.arg[1][1].g = Some(5)
    /\ last.arg[2][1].g = None
    /\ last.val[1].g = Some(5)

\* the (universe, address, value) points of a LiveState
LivePoints(live) ==
    UNION {{<<u, a, live[u][a]>> : a \in DOMAIN live[u]} : u \in DOMAIN live}

\* the fixture is patched and its type is registered
Known(fid) ==
    /\ fid \in DOMAIN patch.fixtures
    /\ patch.fixtures[fid].fixture_type \in DOMAIN patch.fixture_types

ChannelsOf(fid) == patch.fixture_types[patch.fixtures[fid].fixture_type]

\* the field of the same name as an emitting channel kind
KindField(kind) ==
    CASE kind = "Intensity" -> "intensity"
      [] kind = "ColorR" -> "r"
      [] kind = "ColorG" -> "g"
      [] kind = "ColorB" -> "b"

EmittingKinds == {"Intensity", "ColorR", "ColorG", "ColorB"}

\* some channel of the fixture lies outside the DMX addresses 1..512
OutOfRange(fid) ==
    /\ Known(fid)
    /\ \E i \in 0..(Len(ChannelsOf(fid)) - 1) :
           patch.fixtures[fid].address + i \notin 1..512

\* the points the fixtures of fv project to: channel i at address + i on the
\* fixture's universe, for the kinds that take a field, where it is set
Points(fv) ==
    UNION {{<<patch.fixtures[fid].universe, patch.fixtures[fid].address + i,
              Unwrap(fv[fid][KindField(ChannelsOf(fid)[i + 1])])>> :
               i \in {j \in 0..(Len(ChannelsOf(fid)) - 1) :
                          /\ ChannelsOf(fid)[j + 1] \in EmittingKinds
                          /\ IsSome(fv[fid][KindField(ChannelsOf(fid)[j + 1])])}} :
           fid \in DOMAIN fv}

\* a render of the fixtures of fv: an error if a channel is out of range,
\* and if it succeeds exactly the projected points, all within 1..512
ProjectionOk(res, fv) ==
    /\ (\E fid \in DOMAIN fv : OutOfRange(fid)) => ~res.ok
    /\ res.ok => /\ LivePoints(res.live) = Points(fv)
                 /\ \A pt \in LivePoints(res.live) : pt[2] \in 1..512

\* what the programmer renders: its values on every selected fixture
ProgSelection == [fid \in programmer.selected |-> ProgValues(programmer)]
\* what the playbacks render: the merge of their outputs
MergedOutput == merge_maps(Output("a"), Output("b"))

\* C15: programmer overrides playback.  In a LiveState Runtime::render
\* returns, every address Programmer::render writes holds the programmer's
\* value, every other address the playbacks write holds the merged playback
\* value, and there are no further addresses.
C15_ProgrammerOverrides ==
    (last.op = "out" /\ last.status = "Ok") =>
        LET prog == programmer_render(programmer, patch).live
            pbs == render_playbacks(playback, cue_lists, patch).live
        IN  /\ \A pt \in LivePoints(prog) : pt \in LivePoints(last.val)
            /\ \A pt \in LivePoints(pbs) :
                   (pt[1] \notin DOMAIN prog \/ pt[2] \notin DOMAIN prog[pt[1]])
                       => pt \in LivePoints(last.val)
            /\ \A pt \in LivePoints(last.val) :
                   pt \in LivePoints(prog) \cup LivePoints(pbs)

\* playback A is mid-fade; the programmer writes an address the playback
\* has at another value, and the playback writes addresses the programmer
\* does not
C15_Witness ==
    /\ last.op = "out"
    /\ last.status = "Ok"
    /\ MidFade(playback["a"])
    /\ LET prog == programmer_render(programmer, patch).live
           pbs == render_playbacks(playback, cue_lists, patch).live
       IN  /\ \E pt \in LivePoints(prog) : \E qt \in LivePoints(pbs) :
                  pt[1] = qt[1] /\ pt[2] = qt[2] /\ pt[3] # qt[3] /\ qt[3] # 0
           /\ \E qt \in LivePoints(pbs) :
                  /\ qt[3] # 0
                  /\ \A pt \in LivePoints(prog) : ~(pt[1] = qt[1] /\ pt[2] = qt[2])

\* C16: fixture projection.  Programmer::render and the projection of the
\* playbacks' fixtures emit channel i at address + i on the fixture's
\* universe, Intensity/R/G/B taking the field of the same name and Pan,
\* Tilt, Other nothing; they return an error if any channel of a rendered
\* fixture is outside 1..512, and no LiveState `out` obtains holds an
\* address outside 1..512.
C16_FixtureProjection ==
    /\ ProjectionOk(programmer_render(programmer, patch), ProgSelection)
    /\ ProjectionOk(render_playbacks(playback, cue_lists, patch), MergedOutput)
    /\ (last.op = "out" /\ last.status = "Ok") =>
           \A pt \in LivePoints(last.val) : pt[2] \in 1..512

\* a successful render of a moving light (Pan and Tilt emit nothing) and of
\* a fixture whose last channel is at address 512
C16_Witness ==
    /\ last.op = "out"
    /\ last.status = "Ok"
    /\ programmer.selected = {1, 2}
    /\ \E pt \in LivePoints(last.val) : pt[2] = 512 /\ pt[3] # 0
    /\ \E pt \in LivePoints(last.val) : pt[1] = 1 /\ pt[2] = 1 /\ pt[3] # 0
    /\ \A pt \in LivePoints(last.val) : pt[1] = 1 => pt[2] \notin {2, 3}

\* C17: reference errors surface from render.  Programmer::render returns an
\* error whenever a selected fixture is not patched or its type is not
\* registered, also with no values set; Runtime::render returns an error
\* then, and when a playback's output lists a fixture that is not patched.
C17_ReferenceErrors ==
    LET badSelection == \E fid \in programmer.selected : ~Known(fid)
        badOutput == \E fid \in DOMAIN MergedOutput : fid \notin DOMAIN patch.fixtures
    IN  /\ badSelection => ~programmer_render(programmer, patch).ok
        /\ (last.op = "out" /\ (badSelection \/ badOutput)) => last.status = "Err"

\* the line is `<a> thru`: a number, the word thru, and nothing after it
DanglingThru(line) ==
    /\ Len(line) = 2
    /\ IsSome(ParseUnsigned(line[1], MaxNum))
    /\ to_lowercase(line[2]) = <<"t", "h", "r", "u">>

\* C20: dangling thru.  try_apply_programmer_line on `<a> thru` returns
\* Incomplete and leaves the programmer's selection and values as they were.
C20_DanglingThru ==
    (last.op = "line" /\ DanglingThru(last.arg)) =>
        /\ last.status = "Incomplete"
        /\ programmer = last.val

\* `<a> thru` typed while fixtures other than <a> are selected with a value
C20_Witness ==
    /\ last.op = "line"
    /\ DanglingThru(last.arg)
    /\ last.status = "Incomplete"
    /\ last.val.selected # {}
    /\ Unwrap(ParseUnsigned(last.arg[1], MaxNum)) \notin last.val.selected
    /\ IsSome(last.val.intensity)
    /\ programmer = last.val

(***************************************************************************)
(* The command language as its users read it: what a token is, which       *)
(* fixtures a line names and which level it gives.                         *)
(***************************************************************************)
KeywordToks ==
    { <<"t", "h", "r", "u">>, <<"@">>, <<"f", "u", "l", "l">>, <<"o", "u", "t">> }
IsKeywordTok(t) == to_lowercase(t) \in KeywordToks
IsDigits(t) == t # <<>> /\ \A i \in 1..Len(t) : IsDigit(t[i])
\* an integer, with or without a sign
IsNumberTok(t) ==
    IsDigits(t) \/ (Len(t) > 1 /\ t[1] \in {"+", "-"} /\ IsDigits(Tail(t)))
IsNonNegativeTok(t) == IsDigits(t) \/ (Len(t) > 1 /\ t[1] = "+" /\ IsDigits(Tail(t)))
IsTok(line, i, kw) == i <= Len(line) /\ to_lowercase(line[i]) = kw
IsNumAt(line, i) == i <= Len(line) /\ IsNonNegativeTok(line[i])

RECURSIVE DigitsValue(_)
DigitsValue(t) ==
    IF t = <<>> THEN 0
    ELSE 10 * DigitsValue(SubSeq(t, 1, Len(t) - 1)) + DigitValue(t[Len(t)])
TokValue(t) == IF t[1] = "+" THEN DigitsValue(Tail(t)) ELSE DigitsValue(t)

\* the line is `<a> thru <b> ...`
HasRange(line) ==
    IsNumAt(line, 1) /\ IsTok(line, 2, <<"t", "h", "r", "u">>) /\ IsNumAt(line, 3)
\* the fixtures the line names: {a}, or the inclusive range between a and b
LineSelection(line) ==
    LET a == TokValue(line[1])
    IN  IF HasRange(line)
        THEN LET b == TokValue(line[3])
             IN  IF a <= b THEN a..b ELSE b..a
        ELSE {a}
\* the 1-based position of the token after the selection
AfterSelection(line) == IF HasRange(line) THEN 4 ELSE 2
HasAt(line) == IsTok(line, AfterSelection(line), <<"@">>)
LevelTok(line) == line[AfterSelection(line) + 1]
\* the line is `<a> @` or `<a> thru <b> @`
DanglingAt(line) ==
    IsNumAt(line, 1) /\ HasAt(line) /\ Len(line) = AfterSelection(line)

SameValues(p, q) ==
    p.intensity = q.intensity /\ p.r = q.r /\ p.g = q.g /\ p.b = q.b

\* C21: dangling @.  try_apply_programmer_line on `<a> @` or
\* `<a> thru <b> @` returns Incomplete, the selection is {a} or the inclusive
\* range, and intensity, r, g and b are as they were.
C21_DanglingAt ==
    (last.op = "line" /\ DanglingAt(last.arg)) =>
        /\ last.status = "Incomplete"
        /\ programmer.selected = LineSelection(last.arg)
        /\ SameValues(programmer, last.val)

\* `1 Thru 3 @` entered on a programmer with another selection and a level
C21_Witness ==
    /\ last.op = "line"
    /\ last.arg = LineRangeDanglingAt
    /\ last.status = "Incomplete"
    /\ last.val.selected = {2}
    /\ IsSome(last.val.intensity)
    /\ programmer.selected = {1, 2, 3}

\* C22: NotProgrammer.  An empty line, a first token that is not a
\* non-negative integer, or any token that is neither thru/@/full/out nor a
\* number, gives NotProgrammer and leaves the programmer as it was.
C22_NotProgrammer ==
    LET line == last.arg
    IN  (/\ last.op = "line"
         /\ \/ line = <<>>
            \/ ~IsNonNegativeTok(line[1])
            \/ \E i \in 1..Len(line) : ~IsKeywordTok(line[i]) /\ ~IsNumberTok(line[i]))
        => (last.status = "NotProgrammer" /\ programmer = last.val)

\* `1 thru 2 foo` entered on a programmer that holds fixture 3 at a level
C22_Witness ==
    /\ last.op = "line"
    /\ last.arg = LineBadTail
    /\ last.status = "NotProgrammer"
    /\ last.val.selected = {3}
    /\ IsSome(last.val.intensity)

\* the level a line with `@ full`, `@ out` or `@ p` (p <= 100) gives
LineLevel(line) ==
    LET t == LevelTok(line)
    IN  IF to_lowercase(t) = <<"f", "u", "l", "l">> THEN 255
        ELSE IF to_lowercase(t) = <<"o", "u", "t">> THEN 0
        ELSE (TokValue(t) * 255) \div 100
HasLevel(line) == HasAt(line) /\ Len(line) > AfterSelection(line)

\* C23: Applied effects.  On Applied the selection is {a} or the inclusive
\* range between a and b, whatever it was; `@ full` gives intensity 255,
\* `@ out` 0 and `@ p` p*255/100 truncated; a line without @ leaves the
\* intensity as it was; no line changes r, g or b.
C23_AppliedEffects ==
    last.op = "line" =>
        /\ programmer.r = last.val.r
        /\ programmer.g = last.val.g
        /\ programmer.b = last.val.b
        /\ last.status = "Applied" =>
               /\ programmer.selected = LineSelection(last.arg)
               /\ HasLevel(last.arg) =>
                      programmer.intensity = Some(LineLevel(last.arg))
               /\ ~HasAt(last.arg) => programmer.intensity = last.val.intensity

\* `3 thru 1 @ 99` entered on a programmer that holds fixture 2 and a colour
C23_Witness ==
    /\ last.op = "line"
    /\ last.arg = LineRangeDown
    /\ last.status = "Applied"
    /\ last.val.selected = {2}
    /\ IsSome(last.val.r)
    /\ programmer.selected = {1, 2, 3}
    /\ programmer.intensity = Some(252)

\* C24: parser monotonicity.  After Applied the selection is the one the
\* line gives on a fresh programmer, whatever was entered before.
C24_ParserMonotonicity ==
    (last.op = "line" /\ last.status = "Applied") =>
        programmer.selected =
            try_apply_programmer_line(last.arg, ProgrammerNew).p.selected

\* `1 thru 2 @ full` entered after its prefix `1`, and a line entered on a
\* selection it does not include
C24_Witness ==
    /\ last.op = "line"
    /\ last.status = "Applied"
    /\ steps >= 2
    /\ \/ last.arg = LineRangeFull /\ last.val.selected = {1}
       \/ last.val.selected \ programmer.selected # {}
    /\ last.arg = LineRangeFull => programmer.selected = {1, 2}
    /\ last.arg # LineRangeFull => Cardinality(programmer.selected) > 1

\* the line is `<a> @ <p>` with an integer p above 100
PercentOver(line) ==
    /\ Len(line) = 3
    /\ IsNumAt(line, 1)
    /\ IsTok(line, 2, <<"@">>)
    /\ IsNumAt(line, 3)
    /\ TokValue(line[3]) > 100

\* C25: a percent above 100 is clamped.  try_apply_programmer_line on
\* `<a> @ <p>` with p > 100 returns Applied and sets the intensity to 255.
C25_PercentClamped ==
    (last.op = "line" /\ PercentOver(last.arg)) =>
        (last.status = "Applied" /\ programmer.intensity = Some(255))

\* C26: set_intensity_percent(p) stores min(p, 100) * 255 / 100, truncated,
\* and leaves the selection and r, g, b as they were.
C26_IntensityPercent ==
    last.op = "at" =>
        LET p == last.arg
            capped == IF p < 100 THEN p ELSE 100
        IN  /\ programmer.intensity = Some((capped * 255) \div 100)
            /\ (p = 100 \/ p > 100) => programmer.intensity = Some(255)
            /\ p = 50 => programmer.intensity = Some(127)
            /\ p = 0 => programmer.intensity = Some(0)
            /\ programmer.selected = last.val.selected
            /\ programmer.r = last.val.r
            /\ programmer.g = last.val.g
            /\ programmer.b = last.val.b

\* `at 200` on a programmer that holds a selection and a colour
C26_Witness ==
    /\ last.op = "at"
    /\ last.arg = 200
    /\ programmer.intensity = Some(255)
    /\ programmer.selected # {}
    /\ IsSome(programmer.r)
    /\ last.val.intensity # programmer.intensity

\* the look of fixture fid that playback p puts out over show, unset -> 0,
\* with the programmer's set values on top
LiveLook(show, p, fid) ==
    LET out == output_state_map(playback[p], show)
        field(c) == IF fid \in DOMAIN out THEN UnwrapOr(out[fid][c], 0) ELSE 0
        pick(c) == IF IsSome(programmer[c]) THEN programmer[c] ELSE Some(field(c))
    IN  FV(pick("intensity"), pick("r"), pick("g"), pick("b"))

Recorded == last.op \in {"record_only", "update_only"}

\* C27: record/update cue N only stores, for each selected fixture, the live
\* visible state of the active playback (the interpolated output while a
\* transition runs), overlaid with the programmer's set values, all four
\* fields set.
C27_RecordOnlyLiveLook ==
    (Recorded /\ ~output_panics(playback[last.pb], last.val, TRUE)) =>
        \A fid \in programmer.selected :
            cue_lists["main"][last.arg].changes[fid] = LiveLook(last.val, last.pb, fid)

\* the call re-activates the cue the playback is steady at: goto(n) at n, or
\* go() with no cue after n
SteadyAt(self) == IsSome(self.current) /\ IsNone(self.transition)
Reactivated ==
    /\ Activated
    /\ SteadyAt(Pre)
    /\ \/ last.op = "goto" /\ Some(last.arg) = Pre.current
       \/ /\ last.op = "go"
          /\ DOMAIN MainList # {}
          /\ \A k \in DOMAIN MainList : k <= Unwrap(Pre.current)
Again == IF last.op = "goto" THEN goto(Post, cue_lists, last.arg) ELSE go(Post, cue_lists)
ZeroTiming(self, n) ==
    LET timing == TargetTiming(self, cue_lists, n)
    IN  timing[1] = U32Zero /\ timing[2] = U32Zero

C29_AddFixtureChecks ==
    /\ \A fid \in DOMAIN patch.fixtures :
           patch.fixtures[fid].fixture_type \in DOMAIN patch.fixture_types
    /\ last.op = "add_fixture" =>
           LET fid == last.arg[1]
               fixture == last.arg[2]
               before == last.val
               refused == \/ fid \in DOMAIN before.fixtures
                          \/ fixture.fixture_type \notin DOMAIN before.fixture_types
           IN  /\ refused => (last.status = "Err" /\ patch = before)
               /\ ~refused =>
                      /\ last.status = "Ok"
                      /\ patch.fixture_types = before.fixture_types
                      /\ DOMAIN patch.fixtures = DOMAIN before.fixtures \cup {fid}
                      /\ patch.fixtures[fid] = fixture
                      /\ \A other \in DOMAIN before.fixtures :
                             patch.fixtures[other] = before.fixtures[other]

\* a second fixture 1, of a registered type, refused while fixture 1 stays
C29_Witness ==
    /\ last.op = "add_fixture"
    /\ last.status = "Err"
    /\ last.arg[1] = 1
    /\ last.arg[2].fixture_type \in DOMAIN patch.fixture_types
    /\ 1 \in DOMAIN patch.fixtures
    /\ patch.fixtures[1] # last.arg[2]
    /\ 2 \in DOMAIN patch.fixtures

\* C30: patch address invariant.  Every fixture instance in the patch has
\* address >= 1 and address + len(channels) - 1 <= 512.
C30_PatchAddressInvariant ==
    \A fid \in DOMAIN patch.fixtures :
        LET f == patch.fixtures[fid]
        IN  f.fixture_type \in DOMAIN patch.fixture_types =>
                /\ f.address >= 1
                /\ f.address + Len(patch.fixture_types[f.fixture_type]) - 1 <= 512

LerpEvaluated == last.op = "lerp_u8"

\* C31: fade midpoint.  At t = fade/2 into a fade the value is
\* from + (to - from)/2 with integer division, clamped to 0..255, for every
\* fade_ms > 0 and every from and to.
C31_FadeMidpoint ==
    (LerpEvaluated /\ last.arg[3] = UHalf(last.arg[4])) =>
        /\ last.status = "Ok"
        /\ last.val = Clamp(last.arg[1] + TruncDiv(last.arg[2] - last.arg[1], 2), 0, 255)

\* C40: lerp_u8 is bounded and monotone.  For every from, to, fade and
\* 0 <= t <= fade, the value lies between from and to and does not move
\* back toward from as t grows, also where (to - from) * t is outside i32.
C40_LerpBoundedMonotone ==
    LerpEvaluated =>
        LET a == last.arg[1]
            b == last.arg[2]
            t == last.arg[3]
            dur == last.arg[4]
            lo == IF a <= b THEN a ELSE b
            hi == IF a <= b THEN b ELSE a
        IN  /\ last.status = "Ok"
            /\ lo <= last.val /\ last.val <= hi
            /\ \A u \in LerpTimes(dur) :
                   (ULe(u, t) /\ ~lerp_panics(a, b, u, dur, FALSE)) =>
                       IF a <= b THEN lerp_u8(a, b, u, dur) <= last.val
                       ELSE lerp_u8(a, b, u, dur) >= last.val

(***************************************************************************)
(* C32: applying a palette of kind Intensity overwrites the programmer's   *)
(* intensity when the palette sets one and never touches r, g, b; applying *)
(* a palette of kind Color overwrites exactly those of r, g, b the palette *)
(* sets and never touches intensity; every unset field keeps its prior     *)
(* value and the selection is unchanged.                                   *)
(***************************************************************************)
PaletteApplied == last.op = "apply" /\ last.status = "Ok"

Overwritten(pal, prior, c) ==
    IF IsSome(pal.values[c]) THEN pal.values[c] ELSE prior[c]

C32_ApplyPalette ==
    PaletteApplied =>
        LET pal == ShowPalettes[last.arg]
            prior == last.val
        IN  /\ programmer.selected = prior.selected
            /\ pal.kind = "Intensity" =>
                  /\ programmer.intensity = Overwritten(pal, prior, "intensity")
                  /\ \A c \in {"r", "g", "b"} : programmer[c] = prior[c]
            /\ pal.kind = "Color" =>
                  /\ programmer.intensity = prior.intensity
                  /\ \A c \in {"r", "g", "b"} : programmer[c] = Overwritten(pal, prior, c)

\* a Color palette that leaves b unset is applied over a programmer holding
\* an intensity and a blue of its own, with fixtures selected
C32_Witness ==
    /\ PaletteApplied
    /\ last.arg = "red"
    /\ last.val.selected # {}
    /\ IsSome(last.val.intensity)
    /\ last.val.b = Some(30)
    /\ programmer.b = Some(30)
    /\ programmer.r = Some(255)

(***************************************************************************)
(* C33: transitions complete by accumulated tick time alone.  With ticks   *)
(* of more than 0 ms coming for as long as the program runs, from some     *)
(* point on (the last goto or go is behind) no playback holds a transition *)
(* any more; a tick never changes current, so each playback is then steady *)
(* at the cue it was fading to; and one tick advances the transitions of   *)
(* playback A and of playback B by the same dt.                            *)
(***************************************************************************)
Quiet == steps = LiveSteps /\ ~panicked

TickAdvancesBoth ==
    last'.op = "tick" =>
        \A p \in PBs :
            /\ playback'[p].current = playback[p].current
            /\ IsNone(playback[p].transition) => IsNone(playback'[p].transition)
            /\ IsSome(playback'[p].transition) =>
                  /\ IsSome(playback[p].transition)
                  /\ Tr(playback'[p]).elapsed_ms
                        = SumCapped(Tr(playback[p]).elapsed_ms, last'.arg)

C33_TicksComplete ==
    /\ [][TickAdvancesBoth]_vars
    /\ <>[](panicked \/ \A p \in PBs : IsNone(playback[p].transition))

\* with no goto or go left to enter, one tick ends the transitions of both
\* playbacks, which were started at different times and had both advanced
C33_Witness ==
    /\ Quiet
    /\ last.op = "tick"
    /\ \A p \in PBs :
          /\ IsSome(last.pre[p].transition)
          /\ Tr(last.pre[p]).elapsed_ms # U32Zero
          /\ IsNone(playback[p].transition)
          /\ playback[p].current = last.pre[p].current
    /\ Tr(last.pre["a"]).elapsed_ms # Tr(last.pre["b"]).elapsed_ms

(***************************************************************************)
(* C34: a playback that holds a transition has a current cue: the state    *)
(* current = None with transition = Some(..) is not reachable by new,      *)
(* goto, go, tick and on_cue_deleted.                                      *)
(***************************************************************************)
C34_NoTransitionWithoutCursor ==
    \A p \in PBs : IsSome(playback[p].transition) => IsSome(playback[p].current)

\* a cue is deleted while both playbacks are in a transition: the playback
\* on the deleted cue loses cursor and transition together, the other one
\* keeps both
C34_Witness ==
    /\ last.op = "delete"
    /\ \E p, q \in PBs :
          /\ IsSome(last.pre[p].transition)
          /\ last.pre[p].current = Some(last.arg)
          /\ IsNone(playback[p].current)
          /\ IsNone(playback[p].transition)
          /\ IsSome(last.pre[q].transition)
          /\ IsSome(playback[q].transition)
          /\ IsSome(playback[q].current)

(***************************************************************************)
(* C35: whenever a playback holds a transition, its delay_ms and fade_ms   *)
(* are not both zero and its elapsed_ms is below the saturating sum        *)
(* delay_ms + fade_ms: a transition of no duration is never stored and a   *)
(* finished one is never left in place.                                    *)
(***************************************************************************)
C35_TransitionUnfinished ==
    \A p \in PBs :
        IsSome(playback[p].transition) =>
            LET tr == Tr(playback[p])
            IN  /\ ~(tr.delay_ms = U32Zero /\ tr.fade_ms = U32Zero)
                /\ ULt(tr.elapsed_ms, SumCapped(tr.delay_ms, tr.fade_ms))

\* a tick has left in place a transition that has only a delay, half of it
\* gone, and another tick of the same size would finish it
C35_Witness ==
    /\ last.op = "tick"
    /\ IsSome(Post.transition)
    /\ Tr(Post).fade_ms = U32Zero
    /\ Tr(Post).elapsed_ms = last.arg
    /\ SumCapped(Tr(Post).elapsed_ms, last.arg) = Tr(Post).delay_ms

(***************************************************************************)
(* C36: goto and go on a playback whose cuelist is not a cue list of the   *)
(* show return an error and leave the playback's current, mode and         *)
(* transition as they were before the call.                                *)
(***************************************************************************)
OnMissingList == last.op \in {"goto", "go"} /\ ~HasList(Pre, cue_lists)

C36_MissingListError ==
    OnMissingList =>
        /\ last.status = "Err"
        /\ Post.current = Pre.current
        /\ Post.mode = Pre.mode
        /\ Post.transition = Pre.transition

(***************************************************************************)
(* C37: tick additivity.  For a and b with a + b <= u32::MAX, tick(a)      *)
(* followed by tick(b) leaves a playback in the same state (current,       *)
(* transition or none, elapsed_ms) and with the same output as the single  *)
(* tick(a + b): only the total elapsed time counts, not its split.         *)
(***************************************************************************)
SecondTicks == TickMs \cup {U32Zero, U32(750)}

SumFits(a, b) == ~ULt(USub(U32Max, a), b)

C37_TickAdditive ==
    last.op = "tick" =>
        \A p \in PBs : \A b \in SecondTicks :
            SumFits(last.arg, b) =>
                LET two == tick(playback[p], b)
                    one == tick(last.pre[p], WrappingAdd(last.arg, b))
                IN  /\ two.current = one.current
                    /\ IsSome(two.transition) <=> IsSome(one.transition)
                    /\ IsSome(two.transition) =>
                          Tr(two).elapsed_ms = Tr(one).elapsed_ms
                    /\ two = one
                    /\ output_state_map(two, cue_lists) = output_state_map(one, cue_lists)

\* a tick of 250 ms has left a fade of 1000 ms running, after a delay of
\* 500 ms: 750 ms more, or 1000 ms at once from before the tick, leave it
\* in its fade with one and the same output; 1500 ms at once finish it
C37_Witness ==
    /\ last.op = "tick"
    /\ last.arg = U32(250)
    /\ IsSome(Pre.transition)
    /\ Tr(Pre).elapsed_ms = U32Zero
    /\ Tr(Pre).delay_ms = U32(500)
    /\ IsSome(Post.transition)
    /\ MidFade(tick(Post, U32(750)))
    /\ output_state_map(tick(Post, U32(750)), cue_lists)
          \notin {Tr(Post).from, Tr(Post).to}
    /\ output_state_map(tick(Pre, U32(1000)), cue_lists)
          = output_state_map(tick(Post, U32(750)), cue_lists)
    /\ IsNone(tick(Pre, U32(1500)).transition)

(***************************************************************************)
(* C38: while a playback holds a transition its output is a function of    *)
(* the cached from, to, elapsed_ms, delay_ms and fade_ms alone: a switch   *)
(* of the mode (Tracking <-> CueOnly) changes neither the transition nor   *)
(* the output, at the switch or at any later point of the transition.  The *)
(* mode is read again once the transition is cleared: the output is then   *)
(* the resolved state at the current cue in the mode in force.             *)
(***************************************************************************)
StateIn(mode, self, cue_num) ==
    IF mode = "Tracking" THEN tracked_state_at(self, cue_lists, cue_num)
    ELSE cue_only_state_at(self, cue_lists, cue_num)

C38_ModeReadWhenSteady ==
    /\ (last.op = "pbmode" /\ IsSome(Pre.transition)) =>
          /\ Post.transition = Pre.transition
          /\ output_state_map(Post, cue_lists) = output_state_map(Pre, cue_lists)
    /\ \A p \in PBs :
          LET self == playback[p]
          IN  /\ IsSome(self.transition) =>
                    \A m \in Modes :
                        output_state_map([self EXCEPT !.mode = m], cue_lists)
                            = output_state_map(self, cue_lists)
              /\ (IsNone(self.transition) /\ IsSome(self.current)) =>
                    output_state_map(self, cue_lists)
                        = resolve_map(StateIn(self.mode, self, Unwrap(self.current)))

\* the mode was switched during a transition whose cached target is the
\* look of the other mode; the tick that ends the transition takes the
\* output from that target to the look of the mode now in force
C38_Witness ==
    /\ last.op = "tick"
    /\ IsSome(Pre.transition)
    /\ IsNone(Post.transition)
    /\ IsSome(Post.current)
    /\ \E m \in Modes :
          /\ m # Post.mode
          /\ Tr(Pre).to = resolve_map(StateIn(m, Post, Unwrap(Post.current)))
    /\ output_state_map(Post, cue_lists) # Tr(Pre).to
    /\ output_state_map(Post, cue_lists) # EmptyMap

(***************************************************************************)
(* C39: playback outputs are fully resolved, so for every fixture in       *)
(* playback B's output map the merged r, g and b are B's values (0 where   *)
(* B's cues never set the channel) and playback A's colour for it does not *)
(* reach the output; A's colour is the merged colour only for the fixtures *)
(* that are absent from B's output.                                        *)
(***************************************************************************)
Colours == {"r", "g", "b"}

C39_ColourOfBWins ==
    /\ \A f \in DOMAIN Output("b") : \A c \in Colours :
          /\ IsSome(Output("b")[f][c])
          /\ MergedOutput[f][c] = Output("b")[f][c]
    /\ \A f \in (DOMAIN Output("a")) \ (DOMAIN Output("b")) : \A c \in Colours :
          MergedOutput[f][c] = Output("a")[f][c]

\* both playbacks are steady; A shows a colour on a fixture that B outputs
\* too, and the state of B's cue leaves that channel unset: B's output has
\* 0 there and the merged channel is 0, not A's value
C39_Witness ==
    /\ \A p \in PBs : IsNone(playback[p].transition) /\ IsSome(playback[p].current)
    /\ \E f \in (DOMAIN Output("a")) \cap (DOMAIN Output("b")) : \E c \in Colours :
          /\ Output("a")[f][c] \notin {None, Some(0)}
          /\ IsNone(state_map(playback["b"], cue_lists)[f][c])
          /\ Output("b")[f][c] = Some(0)
          /\ MergedOutput[f][c] = Some(0)

====
